---- MODULE Spec2Model ----
(***************************************************************************)
(* A model of the two subsystems of bala93kumar/AI_Agents.                 *)
(* The error-handling agent:                                               *)
(*   src/src/error_decision_engine.py  - classifier and decision combiner  *)
(*   src/src/agent.py                  - process_failed_job and dispatch   *)
(*   src/src/azure_openai_client.py, databricks_client.py,                 *)
(*   email_notifier.py                 - the collaborators' wrappers       *)
(* The data-curation pipeline:                                             *)
(*   src/src/rules_engine.py           - apply_rules, handlers, validate   *)
(*   src/src/config_parser.py          - parse and its structure check     *)
(*                                                                         *)
(* Python strings are TLA+ strings; str.lower, str.upper, str.strip and    *)
(* the `in` substring test are computed character by character.  A Python  *)
(* value of unknown type (a field of the model's JSON answer, an entry of  *)
(* a rule) is a tagged record.  A DataFrame is an object on a heap.        *)
(***************************************************************************)
EXTENDS Integers, Sequences, FiniteSets, TLC

VARIABLES
    pc,              \* position in process_failed_job / the classifier driver
    attempt_number,  \* argument of process_failed_job
    previous_error,  \* argument of process_failed_job (None or a string)
    run_details,     \* result of databricks_client.get_job_run
    error_message,   \* the message handed to analyze_error and make_decision
    llm_analysis,    \* what llm_client.analyze_error returned
    pattern_result,  \* make_decision's local: result of _analyze_error_pattern
    combined,        \* make_decision's local `decision` before the retry check
    decision,        \* what make_decision returned (or the exception it raised)
    action_result,   \* what _execute_action returned (or the exception raised)
    calls,           \* collaborator calls made so far, in order
    result,          \* what process_failed_job returned
    heap,            \* the DataFrame objects that exist, by object id
    data,            \* the caller's table: the object handed to the engine
    rules,           \* RulesEngine.rules (config['rules'])
    split,           \* how many leading rules the first of two engines gets
    curated,         \* what apply_rules(data) returned with the whole list
    first_pass,      \* what apply_rules(data) returned with the leading rules
    second_pass,     \* what apply_rules(first_pass) returned with the rest
    report,          \* what validate(data) returned
    config_file,     \* the file ConfigParser.parse is pointed at
    loaded           \* what ConfigParser.parse returned (or raised)

agent_vars == <<attempt_number, previous_error, run_details, error_message,
                llm_analysis, pattern_result, combined, decision,
                action_result, calls, result>>

curation_vars == <<heap, data, rules, split, curated, first_pass, second_pass,
                   report, config_file, loaded>>

vars == <<pc, agent_vars, curation_vars>>

----------------------------------------------------------------------------
(* Bounds of the model *)

MaxAttempt == 4
MaxFrags == 2

----------------------------------------------------------------------------
(* Python values *)

NoneV == [t |-> "none"]
StrV(s) == [t |-> "str", s |-> s]
IntV(n) == [t |-> "int", n |-> n]
DictV(d) == [t |-> "dict", d |-> d]
ListV(l) == [t |-> "list", l |-> l]
BoolV(b) == [t |-> "bool", b |-> b]

\* bool(v): None, "", 0, {} and [] are falsy
Truthy(v) ==
    CASE v.t = "none" -> FALSE
      [] v.t = "str"  -> v.s # ""
      [] v.t = "int"  -> v.n # 0
      [] v.t = "dict" -> DOMAIN v.d # {}
      [] v.t = "list" -> Len(v.l) > 0
      [] v.t = "bool" -> v.b

\* a or b
Or(a, b) == IF Truthy(a) THEN a ELSE b

\* d.get(k, default) on a dict modelled as a function from keys to values
Get(d, k, default) == IF k \in DOMAIN d THEN d[k] ELSE default

\* str(v) as used by f-strings
Format(v) ==
    CASE v.t = "none" -> "None"
      [] v.t = "str"  -> v.s
      [] OTHER        -> "<value>"

EmptyDict == [k \in {} |-> NoneV]

\* the curation subsystem is not involved in a run of the error agent
CurationIdle ==
    /\ heap = <<>>
    /\ data = NoneV
    /\ rules = <<>>
    /\ split = 0
    /\ curated = NoneV
    /\ first_pass = NoneV
    /\ second_pass = NoneV
    /\ report = NoneV
    /\ config_file = NoneV
    /\ loaded = NoneV

\* the error agent is not involved in a run of the curation subsystem
AgentIdle ==
    /\ attempt_number = 1
    /\ previous_error = NoneV
    /\ run_details = NoneV
    /\ error_message = ""
    /\ llm_analysis = NoneV
    /\ pattern_result = NoneV
    /\ combined = NoneV
    /\ decision = NoneV
    /\ action_result = NoneV
    /\ calls = <<>>
    /\ result = NoneV

----------------------------------------------------------------------------
(* str.lower, str.upper, substring.  The character-wise maps are folded over
   the two halves of the string, which keeps the evaluation shallow. *)

UpperChars == <<"A","B","C","D","E","F","G","H","I","J","K","L","M",
                "N","O","P","Q","R","S","T","U","V","W","X","Y","Z">>
LowerChars == <<"a","b","c","d","e","f","g","h","i","j","k","l","m",
                "n","o","p","q","r","s","t","u","v","w","x","y","z">>

\* the letter maps as tables, built once
UpperToLower ==
    [c \in {UpperChars[i] : i \in 1..26} |->
        LowerChars[CHOOSE i \in 1..26 : UpperChars[i] = c]]
LowerToUpper ==
    [c \in {LowerChars[i] : i \in 1..26} |->
        UpperChars[CHOOSE i \in 1..26 : LowerChars[i] = c]]

\* characters that are no letters map to themselves
LowerChar(c) == IF c \in DOMAIN UpperToLower THEN UpperToLower[c] ELSE c

UpperChar(c) == IF c \in DOMAIN LowerToUpper THEN LowerToUpper[c] ELSE c

RECURSIVE lower(_)
lower(s) ==
    IF Len(s) <= 1 THEN LowerChar(s)
    ELSE LET half == Len(s) \div 2
         IN  lower(SubSeq(s, 1, half)) \o lower(SubSeq(s, half + 1, Len(s)))

RECURSIVE upper(_)
upper(s) ==
    IF Len(s) <= 1 THEN UpperChar(s)
    ELSE LET half == Len(s) \div 2
         IN  upper(SubSeq(s, 1, half)) \o upper(SubSeq(s, half + 1, Len(s)))

\* str.strip(): leading and trailing whitespace removed
Whitespace == {" ", "\t", "\n", "\r"}

RECURSIVE lstrip(_)
lstrip(s) ==
    IF Len(s) > 0 /\ SubSeq(s, 1, 1) \in Whitespace
    THEN lstrip(SubSeq(s, 2, Len(s)))
    ELSE s

RECURSIVE rstrip(_)
rstrip(s) ==
    IF Len(s) > 0 /\ SubSeq(s, Len(s), Len(s)) \in Whitespace
    THEN rstrip(SubSeq(s, 1, Len(s) - 1))
    ELSE s

strip(s) == rstrip(lstrip(s))

\* Python's `k in s` on strings
Contains(s, k) ==
    \E i \in 1..(Len(s) - Len(k) + 1) : SubSeq(s, i, i + Len(k) - 1) = k

----------------------------------------------------------------------------
(* error_decision_engine.py: DecisionAction and the keyword table *)

DecisionAction == {"RETRY", "RETRY_WITH_NEW_PARAMS", "SEND_EMAIL", "ESCALATE", "IGNORE"}

max_retries == 3

\* self.error_patterns, in the insertion order the dict iterates in
error_patterns == <<
    [error_type |-> "timeout",
     keywords   |-> <<"timeout", "timed out", "deadline exceeded">>,
     action     |-> "RETRY",
     priority   |-> "medium"],
    [error_type |-> "resource",
     keywords   |-> <<"out of memory", "disk space", "resource exhausted",
                      "insufficient resources">>,
     action     |-> "RETRY_WITH_NEW_PARAMS",
     priority   |-> "high"],
    [error_type |-> "permission",
     keywords   |-> <<"permission denied", "access denied", "unauthorized",
                      "forbidden">>,
     action     |-> "SEND_EMAIL",
     priority   |-> "critical"],
    [error_type |-> "syntax",
     keywords   |-> <<"syntax error", "invalid", "parse error",
                      "compilation failed">>,
     action     |-> "SEND_EMAIL",
     priority   |-> "critical"],
    [error_type |-> "network",
     keywords   |-> <<"connection refused", "network error", "timeout",
                      "connection reset">>,
     action     |-> "RETRY",
     priority   |-> "high"],
    [error_type |-> "data",
     keywords   |-> <<"no such file", "file not found", "not found",
                      "does not exist">>,
     action     |-> "SEND_EMAIL",
     priority   |-> "critical"] >>

\* variant: only the first keyword of a category is looked up
first_keyword_only_first(keywords, j, error_lower) ==
    IF j = 1 /\ Len(keywords) >= 1 /\ Contains(error_lower, keywords[1]) THEN 1 ELSE 0

\* the inner loop: the first keyword of `keywords`, from index j on, that is
\* a substring of error_lower; 0 when there is none
RECURSIVE first_keyword(_, _, _)
first_keyword(keywords, j, error_lower) ==
    IF j > Len(keywords) THEN 0
    ELSE IF Contains(error_lower, keywords[j]) THEN j
    ELSE first_keyword(keywords, j + 1, error_lower)

\* variant: the scan goes on after a hit, so the last matching category wins
RECURSIVE scan_patterns_last_wins(_, _, _)
scan_patterns_last_wins(patterns, i, error_lower) ==
    IF i > Len(patterns)
    THEN [error_type      |-> "unknown",
          action          |-> "SEND_EMAIL",
          priority        |-> "medium",
          matched_keyword |-> NoneV]
    ELSE LET pattern == patterns[i]
             j == first_keyword(pattern.keywords, 1, error_lower)
             later == scan_patterns_last_wins(patterns, i + 1, error_lower)
         IN  IF j # 0 /\ later.error_type = "unknown"
             THEN [error_type      |-> pattern.error_type,
                   action          |-> pattern.action,
                   priority        |-> pattern.priority,
                   matched_keyword |-> StrV(pattern.keywords[j])]
             ELSE later

\* variant: the default for an unmatched message is a retry
RECURSIVE scan_patterns_default_retry(_, _, _)
scan_patterns_default_retry(patterns, i, error_lower) ==
    IF i > Len(patterns)
    THEN [error_type      |-> "unknown",
          action          |-> "RETRY",
          priority        |-> "medium",
          matched_keyword |-> NoneV]
    ELSE LET pattern == patterns[i]
             j == first_keyword(pattern.keywords, 1, error_lower)
         IN  IF j # 0
             THEN [error_type      |-> pattern.error_type,
                   action          |-> pattern.action,
                   priority        |-> pattern.priority,
                   matched_keyword |-> StrV(pattern.keywords[j])]
             ELSE scan_patterns_default_retry(patterns, i + 1, error_lower)

\* the outer loop over self.error_patterns.items(), returning at the first hit
RECURSIVE scan_patterns(_, _, _)
scan_patterns(patterns, i, error_lower) ==
    IF i > Len(patterns)
    THEN [error_type      |-> "unknown",
          action          |-> "SEND_EMAIL",
          priority        |-> "medium",
          matched_keyword |-> NoneV]
    ELSE LET pattern == patterns[i]
             j == first_keyword(pattern.keywords, 1, error_lower)
         IN  IF j # 0
             THEN [error_type      |-> pattern.error_type,
                   action          |-> pattern.action,
                   priority        |-> pattern.priority,
                   matched_keyword |-> StrV(pattern.keywords[j])]
             ELSE scan_patterns(patterns, i + 1, error_lower)

\* variant: the message is not lower-cased before the keywords are looked up
_analyze_error_pattern_case_sensitive(msg) == scan_patterns(error_patterns, 1, msg)

_analyze_error_pattern(msg) == scan_patterns(error_patterns, 1, lower(msg))

----------------------------------------------------------------------------
(* error_decision_engine.py: the decision combiner *)

\* the outcome of a call: a returned value or a propagated exception
Returned(v) == [raised |-> FALSE, value |-> v]
Raised(e) == [raised |-> TRUE, exc |-> e]

\* variant: the recommendation is looked up without .upper()
recommended_action_case_sensitive(pattern, llm) ==
    LET rec == Get(llm, "recommendation", NoneV)
    IN  IF Truthy(rec)
        THEN IF rec.t # "str" THEN Raised("AttributeError")
             ELSE IF rec.s \in DecisionAction
                  THEN Returned(rec.s)
                  ELSE Returned(pattern.action)
        ELSE Returned(pattern.action)

\* DecisionAction[llm_analysis["recommendation"].upper()], with its
\* except (KeyError, ValueError) fallback; .upper() on a value that is not a
\* string raises AttributeError, which that except clause does not catch
recommended_action(pattern, llm) ==
    LET rec == Get(llm, "recommendation", NoneV)
    IN  IF Truthy(rec)
        THEN IF rec.t # "str" THEN Raised("AttributeError")
             ELSE IF upper(rec.s) \in DecisionAction
                  THEN Returned(upper(rec.s))
                  ELSE Returned(pattern.action)
        ELSE Returned(pattern.action)

\* llm_analysis.get("severity", pattern_result["priority"]).lower()
combined_priority(pattern, llm) ==
    LET sev == Get(llm, "severity", StrV(pattern.priority))
    IN  IF sev.t # "str" THEN Raised("AttributeError")
        ELSE Returned(StrV(lower(sev.s)))

_combine_analyses(pattern, llm, job_context) ==
    LET action == recommended_action(pattern, llm)
        priority == combined_priority(pattern, llm)
    IN  IF action.raised THEN action
        ELSE IF priority.raised THEN priority
        ELSE Returned(
            [action           |-> action.value,
             error_category   |-> Get(llm, "error_category", StrV(pattern.error_type)),
             root_cause       |-> Get(llm, "root_cause", StrV("Unknown")),
             reason           |-> Get(llm, "reason",
                                      Or(pattern.matched_keyword, StrV("Pattern matched"))),
             priority         |-> priority.value,
             suggested_params |-> Get(llm, "suggested_params", NoneV),
             recipient_team   |-> Get(llm, "recipient_team", StrV("DevOps"))])

_build_decision(pattern, job_context) ==
    [action           |-> pattern.action,
     error_category   |-> StrV(pattern.error_type),
     root_cause       |-> pattern.matched_keyword,
     reason           |-> StrV("Matched pattern: " \o Format(pattern.matched_keyword)),
     priority         |-> StrV(pattern.priority),
     suggested_params |-> NoneV,
     recipient_team   |-> StrV("DevOps")]

\* make_decision, lines 83-87: `if llm_analysis:` is false for None and {}
combine_stage(pattern, job_context, llm) ==
    IF Truthy(llm)
    THEN _combine_analyses(pattern, llm.d, job_context)
    ELSE Returned(_build_decision(pattern, job_context))

\* variant: the limit is reached one attempt late
retry_limit_reached_late(attempt, action) ==
    attempt > max_retries /\ action \in {"RETRY", "RETRY_WITH_NEW_PARAMS"}

\* variant: the limit stops plain retries only
retry_limit_reached_plain_retry_only(attempt, action) ==
    attempt >= max_retries /\ action = "RETRY"

\* the condition of the retry-limit check, lines 90-94
retry_limit_reached(attempt, action) ==
    attempt >= max_retries /\ action \in {"RETRY", "RETRY_WITH_NEW_PARAMS"}

\* make_decision, lines 89-103: the retry-limit check and the stamps
retry_limit_stage(d, job_context) ==
    LET attempt == job_context.attempt_number
        checked ==
            IF retry_limit_reached(attempt, d.action)
            THEN [d EXCEPT !.action = "SEND_EMAIL",
                           !.reason = StrV("Max retries (" \o ToString(max_retries)
                                           \o ") exceeded")]
            ELSE d
    IN  [action           |-> checked.action,
         error_category   |-> checked.error_category,
         root_cause       |-> checked.root_cause,
         reason           |-> checked.reason,
         priority         |-> checked.priority,
         suggested_params |-> checked.suggested_params,
         recipient_team   |-> checked.recipient_team,
         timestamp        |-> "utcnow",
         attempt_number   |-> attempt]

\* variant: the retry limit is checked on the classifier's action, before the
\* model's recommendation is combined in
make_decision_check_first(msg, job_context, llm) ==
    LET pattern == _analyze_error_pattern(msg)
        limited == IF retry_limit_reached(job_context.attempt_number, pattern.action)
                   THEN [pattern EXCEPT !.action = "SEND_EMAIL"]
                   ELSE pattern
        d == combine_stage(limited, job_context, llm)
    IN  IF d.raised THEN d
        ELSE Returned(d.value @@ [timestamp |-> "utcnow",
                                  attempt_number |-> job_context.attempt_number])

make_decision(msg, job_context, llm) ==
    LET pattern == _analyze_error_pattern(msg)
        d == combine_stage(pattern, job_context, llm)
    IN  IF d.raised THEN d
        ELSE Returned(retry_limit_stage(d.value, job_context))

----------------------------------------------------------------------------
(* Inputs *)

\* an optional dict entry: opt is <<>> (key absent) or <<value>>
Field(k, opt) == IF Len(opt) = 0 THEN EmptyDict ELSE (k :> opt[1])

\* "recommendation" of the model's answer: absent, null, empty, tag names in
\* several letter cases, strings that name no tag, and values that are no string
Recommendations ==
    { <<>>, <<NoneV>>, <<StrV("")>>,
      <<StrV("retry")>>, <<StrV("RETRY")>>, <<StrV("Retry_With_New_Params")>>,
      <<StrV("send_email")>>, <<StrV("Escalate")>>, <<StrV("ignore")>>,
      <<StrV("restart")>>, <<StrV("retry now")>>,
      <<IntV(5)>>, <<IntV(0)>> }

\* "severity": absent, null, strings
Severities == { <<>>, <<NoneV>>, <<StrV("HIGH")>>, <<StrV("low")>>, <<StrV("")>> }

\* the remaining fields: all absent, all present, all present but empty, and
\* suggested_params given as text
Profiles ==
    { EmptyDict,
      ("error_category" :> StrV("resource"))
        @@ ("root_cause" :> StrV("Insufficient memory allocation"))
        @@ ("reason" :> StrV("Increasing memory will likely fix the issue"))
        @@ ("suggested_params" :> DictV("memory_gb" :> IntV(16)))
        @@ ("recipient_team" :> StrV("Data Platform")),
      ("error_category" :> StrV(""))
        @@ ("root_cause" :> StrV(""))
        @@ ("reason" :> StrV(""))
        @@ ("suggested_params" :> DictV(EmptyDict))
        @@ ("recipient_team" :> StrV("")),
      "suggested_params" :> StrV(""),
      "suggested_params" :> StrV("{}") }

LLMAnalyses ==
    { DictV(Field("recommendation", r) @@ Field("severity", s) @@ p) :
        r \in Recommendations, s \in Severities, p \in Profiles }

\* messages handed to make_decision directly
DecideMessages ==
    { "Job execution timed out after 3600 seconds",
      "Permission denied: Access to file denied",
      "Out of memory error",
      "Connection refused by host",
      "Invalid syntax near SELECT",
      "Table does not exist",
      "PERMISSION DENIED after Timeout",
      "Something odd happened" }

\* pieces of messages handed to the classifier: every keyword of the table,
\* some in other letter cases, and text that holds no keyword
Fragments ==
    { "timeout", "timed out", "deadline exceeded",
      "out of memory", "disk space", "resource exhausted", "insufficient resources",
      "permission denied", "access denied", "unauthorized", "forbidden",
      "syntax error", "invalid", "parse error", "compilation failed",
      "connection refused", "network error", "connection reset",
      "no such file", "file not found", "not found", "does not exist",
      "Timed Out", "TIMEOUT", "Permission Denied", "Out Of Memory",
      "Job ", " after 3600 seconds", "time", "out", ": " }

RECURSIVE Concats(_)
Concats(n) ==
    IF n = 0 THEN {""}
    ELSE LET prev == Concats(n - 1)
         IN  prev \cup { p \o f : p \in prev, f \in Fragments }

ClassifyMessages == Concats(MaxFrags)

JobContext(attempt, parameters) ==
    [job_id |-> 123, run_id |-> 456, attempt_number |-> attempt,
     parameters |-> parameters]

----------------------------------------------------------------------------
(* The classifier on its own: _analyze_error_pattern applied to a message *)

InitClassify ==
    /\ pc = "classify"
    /\ error_message \in ClassifyMessages
    /\ attempt_number = 1
    /\ previous_error = NoneV
    /\ run_details = NoneV
    /\ llm_analysis = NoneV
    /\ pattern_result = NoneV
    /\ combined = NoneV
    /\ decision = NoneV
    /\ action_result = NoneV
    /\ calls = <<>>
    /\ result = NoneV
    /\ CurationIdle

Classify ==
    /\ pc = "classify"
    /\ pattern_result' = _analyze_error_pattern(error_message)
    /\ pc' = "classified"
    /\ UNCHANGED curation_vars
    /\ UNCHANGED <<attempt_number, previous_error, run_details, error_message,
                   llm_analysis, combined, decision, action_result, calls, result>>

NextClassify == Classify

SpecClassify == InitClassify /\ [][NextClassify]_vars

----------------------------------------------------------------------------
(* The decision engine on its own: make_decision applied to its arguments *)

InitDecide ==
    /\ pc = "decide"
    /\ error_message \in DecideMessages
    /\ attempt_number \in 1..MaxAttempt
    /\ llm_analysis \in {NoneV} \cup LLMAnalyses
    /\ previous_error = NoneV
    /\ run_details = NoneV
    /\ pattern_result = NoneV
    /\ combined = NoneV
    /\ decision = NoneV
    /\ action_result = NoneV
    /\ calls = <<>>
    /\ result = NoneV
    /\ CurationIdle

Decide ==
    /\ pc = "decide"
    /\ LET job_context == JobContext(attempt_number, EmptyDict)
       IN  /\ pattern_result' = _analyze_error_pattern(error_message)
           /\ combined' = combine_stage(pattern_result', job_context, llm_analysis)
           /\ decision' = make_decision(error_message, job_context, llm_analysis)
    /\ pc' = "decided"
    /\ UNCHANGED curation_vars
    /\ UNCHANGED <<attempt_number, previous_error, run_details, error_message,
                   llm_analysis, action_result, calls, result>>

NextDecide == Decide

SpecDecide == InitDecide /\ [][NextDecide]_vars

----------------------------------------------------------------------------
(* azure_openai_client.py *)

\* what analyze_error returns when the request or the parsing of its answer
\* raised (the except branch)
analysis_fallback ==
    DictV(("error" :> StrV("<exception text>"))
          @@ ("recommendation" :> StrV("send_email"))
          @@ ("reason" :> StrV("LLM analysis failed, manual review needed")))

\* whether the service's response makes the try block of analyze_error raise:
\* the request failed, the content is no JSON, or the JSON value is no object
\* (analysis.get raises AttributeError)
analysis_failed(response) ==
    \/ response.kind # "json"
    \/ response.value.t # "dict"

\* variant: a failed analysis is reported as an empty analysis
analyze_error_empty_on_failure(response) ==
    IF analysis_failed(response) THEN DictV(EmptyDict) ELSE response.value

analyze_error(response) ==
    IF analysis_failed(response) THEN analysis_fallback ELSE response.value

\* json.loads on the strings of this model
json_loads(s) ==
    IF s = "{}" THEN Returned(DictV(EmptyDict)) ELSE Raised("JSONDecodeError")

\* extract_parameters_for_retry(decision): "suggested_params" is always a key
\* of a decision, so the {} default of .get is never taken
extract_parameters_for_retry(error_analysis) ==
    LET suggested_params == error_analysis.suggested_params
    IN  IF suggested_params.t = "str"
        THEN IF json_loads(suggested_params.s).raised
             THEN DictV(EmptyDict)
             ELSE json_loads(suggested_params.s).value
        ELSE suggested_params

\* the fixed template generate_email_content returns when drafting raised
email_template ==
    DictV(("subject" :> StrV("Job Failure Alert - Immediate Action Required"))
          @@ ("body" :> StrV("Job failed with error. Please review and take action.")))

\* generate_email_content: the parsed JSON answer, whatever its type, or the
\* template when the request or the parsing raised
generate_email_content(draft) ==
    IF draft.kind = "json" THEN draft.value ELSE email_template

----------------------------------------------------------------------------
(* agent.py: dispatch *)

Call(op, ok) == [op |-> op, ok |-> ok]

EndsWith(s, suffix) ==
    /\ Len(s) >= Len(suffix)
    /\ SubSeq(s, Len(s) - Len(suffix) + 1, Len(s)) = suffix

\* the outcome of a dispatch branch: what it returned or raised, and the
\* collaborator calls it made
Outcome(outcome, made) == [outcome |-> outcome, calls |-> made]

\* databricks_client.submit_job_run as seen by the agent: the response's JSON
\* object, or {"error": ...} when the request raised
submit_job_run(job_id, parameters, env) ==
    [op |-> "submit_job_run", ok |-> env.submit = "run_id", job_id |-> job_id,
     parameters |-> parameters]

\* databricks_client.cancel_job_run as seen by the agent: True, or False when
\* the request raised
cancel_job_run(run_id, env) ==
    [op |-> "cancel_job_run", ok |-> env.cancel, run_id |-> run_id]

\* a retry that gives up when the run could not be cancelled
_retry_job_only_if_cancelled(job_context, env) ==
    IF env.cancel
    THEN LET made == << cancel_job_run(job_context.run_id, env),
                        submit_job_run(job_context.job_id, job_context.parameters, env) >>
         IN  IF env.submit = "run_id"
             THEN Outcome(Returned(("status" :> StrV("retry_submitted"))
                                   @@ ("new_run_id" :> IntV(789))), made)
             ELSE Outcome(Returned(("status" :> StrV("retry_failed"))
                                   @@ ("error" :> NoneV)), made)
    ELSE Outcome(Returned(("status" :> StrV("retry_failed")) @@ ("error" :> NoneV)),
                 << cancel_job_run(job_context.run_id, env) >>)

_retry_job(job_context, env) ==
    LET made == << cancel_job_run(job_context.run_id, env),
                   submit_job_run(job_context.job_id, job_context.parameters, env) >>
    IN  IF env.submit = "run_id"
        THEN Outcome(Returned(("status" :> StrV("retry_submitted"))
                              @@ ("new_run_id" :> IntV(789))), made)
        ELSE Outcome(Returned(("status" :> StrV("retry_failed"))
                              @@ ("error" :> IF env.submit = "error"
                                             THEN StrV("<exception text>")
                                             ELSE NoneV)), made)

\* a retry that submits the failed run's own parameters again
_retry_job_with_params_unchanged(new_params, job_context, env) ==
    LET made == << cancel_job_run(job_context.run_id, env),
                   submit_job_run(job_context.job_id, job_context.parameters, env) >>
    IN  IF env.submit = "run_id"
        THEN Outcome(Returned(("status" :> StrV("retry_with_params_submitted"))
                              @@ ("new_run_id" :> IntV(789))
                              @@ ("new_parameters" :> new_params)), made)
        ELSE Outcome(Returned(("status" :> StrV("retry_failed"))
                              @@ ("error" :> NoneV)), made)

_retry_job_with_params(new_params, job_context, env) ==
    LET made == << cancel_job_run(job_context.run_id, env),
                   submit_job_run(job_context.job_id, new_params, env) >>
    IN  IF env.submit = "run_id"
        THEN Outcome(Returned(("status" :> StrV("retry_with_params_submitted"))
                              @@ ("new_run_id" :> IntV(789))
                              @@ ("new_parameters" :> new_params)), made)
        ELSE Outcome(Returned(("status" :> StrV("retry_failed"))
                              @@ ("error" :> IF env.submit = "error"
                                             THEN StrV("<exception text>")
                                             ELSE NoneV)), made)

\* email_notifier.send_escalation_notification: the subject it builds itself
\* from the priority, handed to send_error_notification
escalation_subject(priority) ==
    "[" \o upper(priority) \o "] Job Failed - Escalation Required - Job ID: 123"

\* the body of the try block of _send_error_notification
send_error_notification_body(dec, message, env) ==
    LET email_content == generate_email_content(env.draft)
        drafted == [op |-> "generate_email_content", ok |-> env.draft.kind = "json",
                    content |-> email_content]
        sent == env.send = "sent"
        sending == [op |-> "send_error_notification", ok |-> sent,
                    subject |-> escalation_subject(dec.priority.s),
                    recipients |-> <<"admin@example.com">>]
    IN  IF dec.priority.t # "str"
        THEN Outcome(Raised("AttributeError"), <<drafted>>)
        ELSE IF email_content.t # "dict"
        THEN Outcome(Raised("AttributeError"), <<drafted, sending>>)
        ELSE Outcome(Returned(
                 ("status" :> StrV(IF sent THEN "notification_sent"
                                   ELSE "notification_failed"))
                 @@ ("email_subject" :> Get(email_content.d, "subject", NoneV))
                 @@ ("recipients" :> ListV(<<"admin@example.com">>))),
                 <<drafted, sending>>)

\* variant: the body without its try/except
_send_error_notification_unguarded(dec, message, env) ==
    send_error_notification_body(dec, message, env)

_send_error_notification(dec, message, env) ==
    LET body == send_error_notification_body(dec, message, env)
    IN  IF body.outcome.raised
        THEN Outcome(Returned(("status" :> StrV("notification_error"))
                              @@ ("error" :> StrV(body.outcome.exc))), body.calls)
        ELSE body

\* an escalation that also notifies
_escalate_issue_notifying(dec) ==
    Outcome(Returned(("status" :> StrV("escalated"))
                     @@ ("job_id" :> IntV(123))
                     @@ ("run_id" :> IntV(456))
                     @@ ("error_category" :> dec.error_category)
                     @@ ("priority" :> dec.priority)
                     @@ ("requires_manual_review" :> IntV(1))),
            << [op |-> "send_error_notification", ok |-> TRUE,
                subject |-> escalation_subject("high"),
                recipients |-> <<"admin@example.com">>] >>)

_escalate_issue(dec) ==
    Outcome(Returned(("status" :> StrV("escalated"))
                     @@ ("job_id" :> IntV(123))
                     @@ ("run_id" :> IntV(456))
                     @@ ("error_category" :> dec.error_category)
                     @@ ("priority" :> dec.priority)
                     @@ ("requires_manual_review" :> IntV(1))), <<>>)

\* a dispatch that rejects an action it has no branch for
_execute_action_rejecting_unknown(dec, job_context, message, env) ==
    CASE dec.action = "RETRY" ->
            _retry_job(job_context, env)
      [] dec.action = "RETRY_WITH_NEW_PARAMS" ->
            IF Truthy(dec.suggested_params)
            THEN _retry_job_with_params(dec.suggested_params, job_context, env)
            ELSE LET new_params == extract_parameters_for_retry(dec)
                     r == _retry_job_with_params(new_params, job_context, env)
                 IN  Outcome(r.outcome,
                             << [op |-> "extract_parameters_for_retry",
                                 ok |-> dec.suggested_params.t # "str",
                                 value |-> new_params] >>
                             \o r.calls)
      [] dec.action = "SEND_EMAIL" ->
            _send_error_notification(dec, message, env)
      [] dec.action = "ESCALATE" ->
            _escalate_issue(dec)
      [] OTHER ->
            Outcome(Raised("ValueError"), <<>>)

_execute_action(dec, job_context, message, env) ==
    CASE dec.action = "RETRY" ->
            _retry_job(job_context, env)
      [] dec.action = "RETRY_WITH_NEW_PARAMS" ->
            IF Truthy(dec.suggested_params)
            THEN _retry_job_with_params(dec.suggested_params, job_context, env)
            ELSE LET new_params == extract_parameters_for_retry(dec)
                     r == _retry_job_with_params(new_params, job_context, env)
                 IN  Outcome(r.outcome,
                             << [op |-> "extract_parameters_for_retry",
                                 ok |-> dec.suggested_params.t # "str",
                                 value |-> new_params] >>
                             \o r.calls)
      [] dec.action = "SEND_EMAIL" ->
            _send_error_notification(dec, message, env)
      [] dec.action = "ESCALATE" ->
            _escalate_issue(dec)
      [] OTHER ->
            Outcome(Returned("status" :> StrV("unknown_action")), <<>>)

\* _extract_error_message: the truthy parts joined with " | "
RECURSIVE join(_)
join(parts) ==
    IF Len(parts) = 0 THEN ""
    ELSE IF Len(parts) = 1 THEN parts[1].s
    ELSE parts[1].s \o " | " \o join(Tail(parts))

\* a message built from the run's details alone
_extract_error_message_without_output(details, output, previous) ==
    LET p1 == IF Truthy(previous)
              THEN <<StrV("Previous attempt error: " \o previous.s)>> ELSE <<>>
        p2 == IF Truthy(Get(details, "state_message", NoneV))
              THEN <<details["state_message"]>> ELSE <<>>
        error_messages == p1 \o p2
    IN  IF Len(error_messages) > 0 THEN join(error_messages) ELSE "Unknown error"

_extract_error_message(details, output, previous) ==
    LET p1 == IF Truthy(previous)
              THEN <<StrV("Previous attempt error: " \o previous.s)>> ELSE <<>>
        p2 == IF Truthy(Get(details, "state_message", NoneV))
              THEN <<details["state_message"]>> ELSE <<>>
        p3 == IF Truthy(Get(output, "error", NoneV))
              THEN <<output["error"]>> ELSE <<>>
        p4 == IF Truthy(Get(output, "error_trace", NoneV))
              THEN <<output["error_trace"]>> ELSE <<>>
        error_messages == p1 \o p2 \o p3 \o p4
    IN  IF Len(error_messages) > 0 THEN join(error_messages) ELSE "Unknown error"

----------------------------------------------------------------------------
(* agent.py: process_failed_job, one action per collaborator call *)

PreviousErrors == { NoneV, StrV("Connection reset by peer") }

\* what get_job_run returns: the run's JSON object, or {"error": ...}
RunDetails ==
    { "error" :> StrV("HTTP 500"),
      ("state_message" :> StrV("Job execution timed out"))
        @@ ("job_parameters" :> DictV("memory_gb" :> IntV(8))),
      "state_message" :> StrV("Out of memory error"),
      "state_message" :> StrV("Permission denied: Access to file denied"),
      EmptyDict }

\* what get_job_run_output returns: the output's JSON object, or {"error": ...}
Outputs ==
    { EmptyDict,
      "error" :> StrV("HTTP 404"),
      "error" :> StrV("Read timed out"),
      ("error" :> StrV("Task failed")) @@ ("error_trace" :> StrV("Traceback: parse error")) }

\* the analyses the model service answers in the pipeline
PipelineAnalyses ==
    { DictV(Field("recommendation", r) @@ Field("severity", s) @@ p) :
        r \in Recommendations, s \in {<<>>, <<NoneV>>}, p \in Profiles }

\* the service's answer to analyze_error: an exception, content that is no
\* JSON, or a JSON value (an object, or something else)
AnalysisResponses ==
    { [kind |-> "exception"], [kind |-> "invalid_json"],
      [kind |-> "json", value |-> ListV(<<>>)],
      [kind |-> "json", value |-> NoneV] }
    \cup { [kind |-> "json", value |-> a] : a \in PipelineAnalyses }

\* the service's answer to generate_email_content
DraftResponses ==
    { [kind |-> "exception"],
      [kind |-> "json", value |-> DictV(("subject" :> StrV("Job 123 failed"))
                                        @@ ("body" :> StrV("Please review")))],
      [kind |-> "json", value |-> DictV("body" :> StrV("Please review"))],
      [kind |-> "json", value |-> ListV(<<>>)] }

\* what the collaborators do during one dispatch
DispatchEnvs ==
    [cancel : BOOLEAN,
     submit : {"run_id", "no_run_id", "error"},
     draft  : DraftResponses,
     send   : {"sent", "not_sent"}]

Init ==
    /\ pc = "start"
    /\ attempt_number \in 1..MaxAttempt
    /\ previous_error \in PreviousErrors
    /\ run_details = NoneV
    /\ error_message = ""
    /\ llm_analysis = NoneV
    /\ pattern_result = NoneV
    /\ combined = NoneV
    /\ decision = NoneV
    /\ action_result = NoneV
    /\ calls = <<>>
    /\ result = NoneV
    /\ CurationIdle

\* the job_context dict built by process_failed_job
CurrentJobContext ==
    JobContext(attempt_number, Get(run_details.d, "job_parameters", DictV(EmptyDict)))

\* the dict process_failed_job returns from its except branch
Failure(exc) == [success |-> FALSE, job_id |-> 123, run_id |-> 456, error |-> exc]

\* a call that goes on with the details it got, error or not
GetJobRunIgnoringError ==
    /\ pc = "start"
    /\ \E details \in RunDetails :
        /\ run_details' = DictV(details)
        /\ calls' = Append(calls, Call("get_job_run", "error" \notin DOMAIN details))
    /\ result' = result
    /\ pc' = "get_output"
    /\ UNCHANGED curation_vars
    /\ UNCHANGED <<attempt_number, previous_error, error_message, llm_analysis,
                   pattern_result, combined, decision, action_result>>

GetJobRun ==
    /\ pc = "start"
    /\ \E details \in RunDetails :
        /\ run_details' = DictV(details)
        /\ calls' = Append(calls, Call("get_job_run", "error" \notin DOMAIN details))
        /\ IF "error" \in DOMAIN details
           THEN /\ result' = [error |-> details["error"]]
                /\ pc' = "done"
           ELSE /\ result' = result
                /\ pc' = "get_output"
    /\ UNCHANGED curation_vars
    /\ UNCHANGED <<attempt_number, previous_error, error_message, llm_analysis,
                   pattern_result, combined, decision, action_result>>

GetJobRunOutput ==
    /\ pc = "get_output"
    /\ \E output \in Outputs :
        /\ calls' = Append(calls, [op |-> "get_job_run_output",
                                   ok |-> "error" \notin DOMAIN output,
                                   value |-> DictV(output)])
        /\ error_message' = _extract_error_message(run_details.d, output, previous_error)
    /\ pc' = "analyze"
    /\ UNCHANGED curation_vars
    /\ UNCHANGED <<attempt_number, previous_error, run_details, llm_analysis,
                   pattern_result, combined, decision, action_result, result>>

AnalyzeError ==
    /\ pc = "analyze"
    /\ \E response \in AnalysisResponses :
        /\ llm_analysis' = analyze_error(response)
        /\ calls' = Append(calls, Call("analyze_error", ~analysis_failed(response)))
    /\ pc' = "decide"
    /\ UNCHANGED curation_vars
    /\ UNCHANGED <<attempt_number, previous_error, run_details, error_message,
                   pattern_result, combined, decision, action_result, result>>

MakeDecision ==
    /\ pc = "decide"
    /\ pattern_result' = _analyze_error_pattern(error_message)
    /\ combined' = combine_stage(pattern_result', CurrentJobContext, llm_analysis)
    /\ decision' = make_decision(error_message, CurrentJobContext, llm_analysis)
    /\ IF decision'.raised
       THEN /\ result' = Failure(decision'.exc)
            /\ pc' = "done"
       ELSE /\ result' = result
            /\ pc' = "execute"
    /\ UNCHANGED curation_vars
    /\ UNCHANGED <<attempt_number, previous_error, run_details, error_message,
                   llm_analysis, action_result, calls>>

ExecuteAction ==
    /\ pc = "execute"
    /\ \E env \in DispatchEnvs :
        LET r == _execute_action(decision.value, CurrentJobContext, error_message, env)
        IN  /\ action_result' = r.outcome
            /\ calls' = calls \o r.calls
            /\ result' = IF r.outcome.raised
                         THEN Failure(r.outcome.exc)
                         ELSE [success |-> TRUE, job_id |-> 123, run_id |-> 456]
    /\ pc' = "done"
    /\ UNCHANGED curation_vars
    /\ UNCHANGED <<attempt_number, previous_error, run_details, error_message,
                   llm_analysis, pattern_result, combined, decision>>

Next ==
    \/ GetJobRun
    \/ GetJobRunOutput
    \/ AnalyzeError
    \/ MakeDecision
    \/ ExecuteAction

Spec == Init /\ [][Next]_vars

----------------------------------------------------------------------------
(* A caller that processes the failures of one job, one process_failed_job
   call after the other: attempt_number starts at 1 and goes up by one after
   each call that submitted a retry (example_usage.py passes 1, then 2 with
   the previous error). *)

\* the call's action_result reports a submitted retry
RetrySubmitted ==
    /\ pc = "done"
    /\ action_result # NoneV
    /\ ~action_result.raised
    /\ action_result.value["status"] \in
          {StrV("retry_submitted"), StrV("retry_with_params_submitted")}

InitRetries ==
    /\ Init
    /\ attempt_number = 1

\* the locals of the call that returned are gone when the next call starts
NewCall ==
    /\ pc' = "start"
    /\ previous_error' \in PreviousErrors
    /\ run_details' = NoneV
    /\ error_message' = ""
    /\ llm_analysis' = NoneV
    /\ pattern_result' = NoneV
    /\ combined' = NoneV
    /\ decision' = NoneV
    /\ action_result' = NoneV
    /\ calls' = <<>>
    /\ result' = NoneV
    /\ UNCHANGED curation_vars

\* the retried run failed as well: the next attempt is processed
NextAttempt ==
    /\ RetrySubmitted
    /\ attempt_number < MaxAttempt
    /\ attempt_number' = attempt_number + 1
    /\ NewCall

\* no retry was submitted: a later failure of the job is processed as the
\* same attempt
SameAttempt ==
    /\ pc = "done"
    /\ ~RetrySubmitted
    /\ attempt_number' = attempt_number
    /\ NewCall

NextRetries ==
    \/ Next
    \/ NextAttempt
    \/ SameAttempt

SpecRetries == InitRetries /\ [][NextRetries]_vars

----------------------------------------------------------------------------
(* pandas.DataFrame as rules_engine.py uses it.  A table has ordered column
   names, a dtype per column and ordered rows, each with an index label; a
   null entry (None, NaN) is NoneV.  DataFrames are objects: the heap maps an
   object id to the table's current content, and a name holds an object id. *)

DataFrame(columns, dtypes, index, rows) ==
    [columns |-> columns, dtypes |-> dtypes, index |-> index, rows |-> rows]

ColumnSet(df) == {df.columns[i] : i \in 1..Len(df.columns)}

\* the index reset_index(drop=True) gives n rows
RangeIndex(n) == [i \in 1..n |-> i - 1]

reset_index(df) == [df EXCEPT !.index = RangeIndex(Len(df.rows))]

\* the positions from i on at which the boolean mask is true, ascending
RECURSIVE Where(_, _)
Where(mask, i) ==
    IF i > Len(mask) THEN <<>>
    ELSE (IF mask[i] THEN <<i>> ELSE <<>>) \o Where(mask, i + 1)

\* data[mask]: the rows at which the mask is true, with their index labels
getitem_mask(df, mask) ==
    LET at == Where(mask, 1)
    IN  [df EXCEPT !.index = [k \in 1..Len(at) |-> df.index[at[k]]],
                   !.rows  = [k \in 1..Len(at) |-> df.rows[at[k]]]]

\* a new object holding df, and the heap that has it
Alloc(h, df) == [heap |-> Append(h, df), ref |-> Len(h) + 1]

\* how a handler ends: the table it returned, or the exception it raised,
\* and the heap it leaves behind
Ok(h, ref) == [raised |-> FALSE, heap |-> h, ref |-> ref]
Err(h, exc) == [raised |-> TRUE, heap |-> h, exc |-> exc]

\* <column> <op> <literal> on one entry of a numeric column; NaN compares
\* false except under !=
compare_number(op, v, n) ==
    IF v = NoneV THEN op = "!="
    ELSE CASE op = ">"  -> v.n > n
           [] op = ">=" -> v.n >= n
           [] op = "<"  -> v.n < n
           [] op = "<=" -> v.n <= n
           [] op = "==" -> v.n = n
           [] op = "!=" -> v.n # n

Ordering == {">", ">=", "<", "<="}

\* eval(f"data.{condition}") for the expression the condition text parses to:
\* the boolean Series, or the exception the evaluation raises.  Ordering
\* comparisons between strings are not among the modelled conditions.
eval_condition(df, ast) ==
    IF ast.kind = "syntax_error" THEN Raised("SyntaxError")
    ELSE IF ast.column \notin ColumnSet(df) THEN Raised("AttributeError")
    ELSE LET numeric == df.dtypes[ast.column] # "object"
             entry(i) == df.rows[i][ast.column]
             n == Len(df.rows)
         IN  IF numeric /\ ast.literal.t = "int"
             THEN Returned([i \in 1..n |->
                              compare_number(ast.op, entry(i), ast.literal.n)])
             ELSE IF ~numeric /\ ast.literal.t = "str" /\ ast.op \notin Ordering
             THEN Returned([i \in 1..n |->
                              IF ast.op = "==" THEN entry(i) = ast.literal
                                               ELSE entry(i) # ast.literal])
             ELSE IF ast.op \notin Ordering
             THEN Returned([i \in 1..n |-> ast.op = "!="])
             ELSE IF numeric \/ \E i \in 1..n : entry(i) # NoneV
             THEN Raised("TypeError")
             ELSE Returned([i \in 1..n |-> FALSE])

\* Series.str.lower / upper / strip on an object column: strings are mapped,
\* nulls stay null
str_method(operation, v) ==
    IF v.t # "str" THEN NoneV
    ELSE CASE operation = "lowercase" -> StrV(lower(v.s))
           [] operation = "uppercase" -> StrV(upper(v.s))
           [] operation = "strip"     -> StrV(strip(v.s))

\* result[column] = result[column].str.<method>()
assign_str_method(df, column, operation) ==
    [df EXCEPT !.rows = [i \in 1..Len(df.rows) |->
        [df.rows[i] EXCEPT ![column] = str_method(operation, @)]]]

\* the values of row i in the subset columns
Key(df, subset, i) == [c \in subset |-> df.rows[i][c]]

\* DataFrame.duplicated(subset, keep): nulls equal each other
duplicated(df, subset, keep) ==
    [i \in 1..Len(df.rows) |->
        LET earlier == \E j \in 1..(i - 1) : Key(df, subset, j) = Key(df, subset, i)
            later == \E j \in (i + 1)..Len(df.rows) :
                        Key(df, subset, j) = Key(df, subset, i)
        IN  IF keep = StrV("first") THEN earlier
            ELSE IF keep = StrV("last") THEN later
            ELSE earlier \/ later]

\* DataFrame.drop_duplicates(subset, keep): an empty frame is returned as it
\* is; a column that does not exist and a keep policy other than 'first',
\* 'last' and False raise
drop_duplicates(df, subset, keep) ==
    IF Len(df.rows) = 0 \/ Len(df.columns) = 0 THEN Returned(df)
    ELSE IF ~(subset \subseteq ColumnSet(df)) THEN Raised("KeyError")
    ELSE IF keep \notin {StrV("first"), StrV("last"), BoolV(FALSE)}
    THEN Raised("ValueError")
    ELSE Returned(getitem_mask(df, [i \in 1..Len(df.rows) |->
                                      ~duplicated(df, subset, keep)[i]]))

----------------------------------------------------------------------------
(* rules_engine.py.  A rule is a dict; every handler takes the heap and the
   object its `data` names, and returns the object it hands back. *)

RULE_HANDLERS == {StrV("filter"), StrV("transform"), StrV("validate"),
                  StrV("deduplicate")}

\* a filter that keeps the index labels of the surviving rows
apply_filter_keeps_index(h, ref, rule) ==
    LET condition == Get(rule, "condition", NoneV)
        mask == eval_condition(h[ref], condition.ast)
    IN  IF ~Truthy(condition) \/ mask.raised THEN Ok(h, ref)
        ELSE LET made == Alloc(h, getitem_mask(h[ref], mask.value))
             IN  Ok(made.heap, made.ref)

\* a filter without the except around the evaluation of its predicate
apply_filter_unguarded(h, ref, rule) ==
    LET condition == Get(rule, "condition", NoneV)
        mask == eval_condition(h[ref], condition.ast)
    IN  IF ~Truthy(condition) THEN Ok(h, ref)
        ELSE IF mask.raised THEN Err(h, mask.exc)
        ELSE LET made == Alloc(h, reset_index(getitem_mask(h[ref], mask.value)))
             IN  Ok(made.heap, made.ref)

apply_filter(h, ref, rule) ==
    LET condition == Get(rule, "condition", NoneV)
        mask == eval_condition(h[ref], condition.ast)
    IN  IF ~Truthy(condition) THEN Ok(h, ref)
        ELSE IF mask.raised THEN Ok(h, ref)
        ELSE LET made == Alloc(h, reset_index(getitem_mask(h[ref], mask.value)))
             IN  Ok(made.heap, made.ref)

\* one entry of a transform rule applied in place to the table df
apply_one_transform(df, transform) ==
    LET column == Get(transform, "column", NoneV)
        operation == Get(transform, "operation", NoneV)
    IN  IF column.t # "str" \/ column.s \notin ColumnSet(df) THEN df
        ELSE IF operation \notin {StrV("lowercase"), StrV("uppercase"), StrV("strip")}
        THEN df
        ELSE IF df.dtypes[column.s] # "object" THEN df
        ELSE assign_str_method(df, column.s, operation.s)

\* a loop that ends at the first pair it cannot apply
RECURSIVE transform_loop_stops_at_skipped(_, _, _)
transform_loop_stops_at_skipped(df, transforms, i) ==
    IF i > Len(transforms) THEN df
    ELSE LET column == Get(transforms[i].d, "column", NoneV)
             operation == Get(transforms[i].d, "operation", NoneV)
         IN  IF \/ column.t # "str" \/ column.s \notin ColumnSet(df)
                \/ operation \notin {StrV("lowercase"), StrV("uppercase"), StrV("strip")}
             THEN df
             ELSE transform_loop_stops_at_skipped(
                      apply_one_transform(df, transforms[i].d), transforms, i + 1)

\* the loop over rule['transforms'], from entry i on
RECURSIVE transform_loop(_, _, _)
transform_loop(df, transforms, i) ==
    IF i > Len(transforms) THEN df
    ELSE transform_loop(apply_one_transform(df, transforms[i].d), transforms, i + 1)

apply_transform(h, ref, rule) ==
    LET made == Alloc(h, h[ref])
        transforms == Get(rule, "transforms", ListV(<<>>)).l
    IN  Ok([made.heap EXCEPT ![made.ref] = transform_loop(@, transforms, 1)],
           made.ref)

\* a validation that enforces its checks by dropping the rows with a null
apply_validation_dropping_nulls(h, ref, rule) ==
    LET df == h[ref]
        complete == [i \in 1..Len(df.rows) |->
                        \A c \in ColumnSet(df) : df.rows[i][c] # NoneV]
        made == Alloc(h, reset_index(getitem_mask(df, complete)))
    IN  Ok(made.heap, made.ref)

\* only logs: the table handed in is the table handed back
apply_validation(h, ref, rule) == Ok(h, ref)

\* the columns drop_duplicates is asked to compare
dedup_subset(df, rule) ==
    LET subset == Get(rule, "subset", NoneV)
    IN  IF Truthy(subset) /\ subset.t = "list"
        THEN {subset.l[i].s : i \in 1..Len(subset.l)}
        ELSE ColumnSet(df)

\* a deduplication that ignores rule['keep']
apply_deduplication_keep_first(h, ref, rule) ==
    LET keep == Get(rule, "keep", StrV("first"))
        dropped == drop_duplicates(h[ref], dedup_subset(h[ref], rule),
                                   IF keep = StrV("last") THEN StrV("first") ELSE keep)
    IN  IF dropped.raised THEN Err(h, dropped.exc)
        ELSE LET made == Alloc(h, reset_index(dropped.value))
             IN  Ok(made.heap, made.ref)

apply_deduplication(h, ref, rule) ==
    LET keep == Get(rule, "keep", StrV("first"))
        dropped == drop_duplicates(h[ref], dedup_subset(h[ref], rule), keep)
    IN  IF dropped.raised THEN Err(h, dropped.exc)
        ELSE LET made == Alloc(h, reset_index(dropped.value))
             IN  Ok(made.heap, made.ref)

\* getattr(self, RULE_HANDLERS[rule_type])(result, rule)
handler(rule_type, h, ref, rule) ==
    CASE rule_type = StrV("filter")      -> apply_filter(h, ref, rule)
      [] rule_type = StrV("transform")   -> apply_transform(h, ref, rule)
      [] rule_type = StrV("validate")    -> apply_validation(h, ref, rule)
      [] rule_type = StrV("deduplicate") -> apply_deduplication(h, ref, rule)

\* a loop that treats a rule of unknown type as the end of the list
RECURSIVE rules_loop_stops_at_unknown(_, _, _, _)
rules_loop_stops_at_unknown(h, ref, rule_list, i) ==
    IF i > Len(rule_list) THEN Ok(h, ref)
    ELSE LET rule == rule_list[i]
             rule_type == Get(rule, "type", NoneV)
         IN  IF rule_type \notin RULE_HANDLERS THEN Ok(h, ref)
             ELSE LET step == handler(rule_type, h, ref, rule)
                  IN  IF step.raised THEN step
                      ELSE rules_loop_stops_at_unknown(step.heap, step.ref,
                                                       rule_list, i + 1)

\* the loop of apply_rules from rule i on, `result` naming the object ref
RECURSIVE rules_loop(_, _, _, _)
rules_loop(h, ref, rule_list, i) ==
    IF i > Len(rule_list) THEN Ok(h, ref)
    ELSE LET rule == rule_list[i]
             rule_type == Get(rule, "type", NoneV)
         IN  IF rule_type \notin RULE_HANDLERS
             THEN rules_loop(h, ref, rule_list, i + 1)
             ELSE LET step == handler(rule_type, h, ref, rule)
                  IN  IF step.raised THEN step
                      ELSE rules_loop(step.heap, step.ref, rule_list, i + 1)

\* an engine that hands every rule the caller's table
RECURSIVE rules_loop_on_input(_, _, _, _, _)
rules_loop_on_input(h, input, ref, rule_list, i) ==
    IF i > Len(rule_list) THEN Ok(h, ref)
    ELSE LET rule == rule_list[i]
             rule_type == Get(rule, "type", NoneV)
         IN  IF rule_type \notin RULE_HANDLERS
             THEN rules_loop_on_input(h, input, ref, rule_list, i + 1)
             ELSE LET step == handler(rule_type, h, input, rule)
                  IN  IF step.raised THEN step
                      ELSE rules_loop_on_input(step.heap, input, step.ref,
                                               rule_list, i + 1)

apply_rules_each_on_input(h, table, rule_list) ==
    LET copy == Alloc(h, h[table])
    IN  rules_loop_on_input(copy.heap, copy.ref, copy.ref, rule_list, 1)

\* an engine that starts from the caller's table itself
apply_rules_without_copy(h, table, rule_list) ==
    rules_loop(h, table, rule_list, 1)

\* RulesEngine(config).apply_rules(table)
apply_rules(h, table, rule_list) ==
    LET copy == Alloc(h, h[table])
    IN  rules_loop(copy.heap, copy.ref, rule_list, 1)

\* a report that counts the entries present instead of the entries missing
validate_counts_present(df) ==
    [total_records |-> Len(df.rows),
     columns |-> df.columns,
     missing_values |-> [c \in ColumnSet(df) |->
        Cardinality({i \in 1..Len(df.rows) : df.rows[i][c] # NoneV})],
     dtypes |-> df.dtypes]

\* RulesEngine.validate(data): the report
validate(df) ==
    [total_records |-> Len(df.rows),
     columns |-> df.columns,
     missing_values |-> [c \in ColumnSet(df) |->
        Cardinality({i \in 1..Len(df.rows) : df.rows[i][c] = NoneV})],
     dtypes |-> df.dtypes]

----------------------------------------------------------------------------
(* The curation engine on its own: tables and rule lists it is run on *)

MaxRules == 2

Row2(id, name) == ("id" :> id) @@ ("name" :> name)
Row3(id, name, email) == Row2(id, name) @@ ("email" :> email)

Dtypes2(id) == ("id" :> id) @@ ("name" :> "object")

\* the fixture of tests/test_agent.py (without its status column)
SampleData ==
    DataFrame(<<"id", "name", "email">>,
              Dtypes2("int64") @@ ("email" :> "object"),
              RangeIndex(5),
              << Row3(IntV(1), StrV("Alice"), StrV("alice@test.com")),
                 Row3(IntV(2), StrV("Bob"), StrV("bob@test.com")),
                 Row3(IntV(3), StrV("Charlie"), NoneV),
                 Row3(IntV(4), StrV("David"), StrV("david@test.com")),
                 Row3(IntV(5), StrV("Eve"), StrV("eve@test.com")) >>)

\* the table of test_deduplication_rule
DuplicatedData ==
    DataFrame(<<"id", "name">>, Dtypes2("int64"), RangeIndex(5),
              << Row2(IntV(1), StrV("Alice")), Row2(IntV(1), StrV("Alice")),
                 Row2(IntV(2), StrV("Bob")), Row2(IntV(2), StrV("Bob")),
                 Row2(IntV(3), StrV("Charlie")) >>)

\* rows that agree on id and differ on name
SameIdData ==
    DataFrame(<<"id", "name">>, Dtypes2("int64"), RangeIndex(3),
              << Row2(IntV(1), StrV("A")), Row2(IntV(1), StrV("A'")),
                 Row2(IntV(2), StrV("B")) >>)

\* null ids (a float64 column), a null name, padded names
NullData ==
    DataFrame(<<"id", "name">>, Dtypes2("float64"), RangeIndex(4),
              << Row2(NoneV, StrV(" Bob ")), Row2(IntV(2), NoneV),
                 Row2(NoneV, StrV(" Bob ")), Row2(IntV(2), StrV("bob")) >>)

\* a table the caller sliced before: its index is not 0..n-1
SlicedData ==
    DataFrame(<<"id", "name">>, Dtypes2("int64"), <<3, 7, 9>>,
              << Row2(IntV(2), StrV("bob")), Row2(IntV(3), StrV("BOB")),
                 Row2(IntV(2), StrV("bob")) >>)

EmptyData == DataFrame(<<"id", "name">>, Dtypes2("int64"), <<>>, <<>>)

Tables == {SampleData, DuplicatedData, SameIdData, NullData, SlicedData, EmptyData}

\* a condition: its text, and the expression `data.<text>` parses to
Condition(text, ast) == [t |-> "str", s |-> text, ast |-> ast]
Comparison(column, op, literal) ==
    [kind |-> "compare", column |-> column, op |-> op, literal |-> literal]

Filter(condition) == ("type" :> StrV("filter")) @@ ("condition" :> condition)
Transform(transforms) ==
    ("type" :> StrV("transform")) @@ ("transforms" :> ListV(transforms))
Column(column, key, value) == DictV(("column" :> StrV(column)) @@ (key :> StrV(value)))
Validate(checks) == ("type" :> StrV("validate")) @@ ("checks" :> ListV(checks))
Deduplicate(fields) == ("type" :> StrV("deduplicate")) @@ fields
Names(columns) == ListV([i \in 1..Len(columns) |-> StrV(columns[i])])

IdAbove1 == Condition("id > 1", Comparison("id", ">", IntV(1)))

\* the rules that rule lists are built from: each kind of rule, well-formed
\* and failing, and rules of no known type
CoreRules ==
    { Filter(IdAbove1) @@ ("name" :> StrV("Keep IDs > 1")),
      Filter(Condition("id >", [kind |-> "syntax_error"])),
      Transform(<< Column("name", "operation", "uppercase") >>),
      Transform(<< Column("missing", "operation", "lowercase"),
                   Column("name", "operation", "strip"),
                   Column("id", "operation", "lowercase") >>),
      Validate(<< Column("email", "type", "not_null") >>),
      Deduplicate(("subset" :> Names(<<"id">>)) @@ ("keep" :> StrV("first"))),
      Deduplicate("keep" :> StrV("last")),
      Deduplicate("subset" :> Names(<<"missing">>)),
      Deduplicate("keep" :> StrV("bogus")),
      ("type" :> StrV("sort")) @@ ("condition" :> IdAbove1),
      ("name" :> StrV("untyped")) @@ ("condition" :> IdAbove1) }

\* further rules, run one at a time
SingleRules ==
    { Filter(Condition("id == 2", Comparison("id", "==", IntV(2)))),
      Filter(Condition("id != 2", Comparison("id", "!=", IntV(2)))),
      Filter(Condition("id <= 2", Comparison("id", "<=", IntV(2)))),
      Filter(Condition("name == 'bob'", Comparison("name", "==", StrV("bob")))),
      Filter(Condition("name != 'bob'", Comparison("name", "!=", StrV("bob")))),
      Filter(Condition("name > 1", Comparison("name", ">", IntV(1)))),
      Filter(Condition("id == 'x'", Comparison("id", "==", StrV("x")))),
      Filter(Condition("id < 'x'", Comparison("id", "<", StrV("x")))),
      Filter(Condition("missing > 1", Comparison("missing", ">", IntV(1)))),
      Filter(StrV("")),
      "type" :> StrV("filter"),
      Transform(<< Column("name", "operation", "lowercase"),
                   Column("name", "operation", "reverse") >>),
      Transform(<< Column("name", "operation", "uppercase"),
                   Column("email", "operation", "title"),
                   Column("name", "operation", "lowercase") >>),
      Transform(<< Column("name", "operation", "lowercase"),
                   DictV("operation" :> StrV("strip")),
                   Column("name", "operation", "uppercase"),
                   Column("name", "operation", "strip") >>),
      "type" :> StrV("transform"),
      Validate(<< Column("missing", "type", "not_null") >>),
      "type" :> StrV("deduplicate"),
      Deduplicate(("subset" :> Names(<<"id", "name">>)) @@ ("keep" :> StrV("last"))),
      Deduplicate(("subset" :> Names(<<"name">>)) @@ ("keep" :> StrV("last"))),
      Deduplicate(("subset" :> Names(<<"id">>)) @@ ("keep" :> StrV("last"))),
      Deduplicate(("subset" :> Names(<<"id">>)) @@ ("keep" :> BoolV(FALSE))),
      Deduplicate("subset" :> StrV("id")),
      Deduplicate("subset" :> Names(<<>>)),
      Deduplicate("keep" :> NoneV),
      "type" :> StrV("Filter"),
      "type" :> StrV(""),
      "type" :> IntV(5),
      "type" :> NoneV }

\* the lists of at most n rules over a set of rules
RECURSIVE Lists(_, _)
Lists(S, n) ==
    IF n = 0 THEN {<<>>}
    ELSE Lists(S, n - 1) \cup
         {Append(l, r) : l \in {m \in Lists(S, n - 1) : Len(m) = n - 1}, r \in S}

\* rule lists: every list of core rules, every further rule on its own, and
\* every further filter followed by a core rule
RuleLists ==
    Lists(CoreRules, MaxRules)
    \cup {<<r>> : r \in SingleRules}
    \cup {<<f, r>> : f \in {s \in SingleRules : s["type"] = StrV("filter")},
                     r \in CoreRules}

\* what a caller keeps of a handler's end: its table or its exception
Handed(outcome) ==
    IF outcome.raised THEN Raised(outcome.exc) ELSE Returned(outcome.ref)

InitRules ==
    /\ pc = "curate"
    /\ \E table \in Tables : heap = <<table>>
    /\ data = 1
    /\ rules \in RuleLists
    /\ split = 0
    /\ curated = NoneV
    /\ first_pass = NoneV
    /\ second_pass = NoneV
    /\ report = NoneV
    /\ config_file = NoneV
    /\ loaded = NoneV
    /\ AgentIdle

\* RulesEngine({'rules': rules}).apply_rules(data)
ApplyRules ==
    /\ pc = "curate"
    /\ LET outcome == apply_rules(heap, data, rules)
       IN  /\ heap' = outcome.heap
           /\ curated' = Handed(outcome)
    /\ pc' = "curated"
    /\ UNCHANGED <<data, rules, split, first_pass, second_pass, report,
                   config_file, loaded>>
    /\ UNCHANGED agent_vars

\* RulesEngine.validate on the caller's table or on the curated one
ValidateTable ==
    /\ pc = "curated"
    /\ \E table \in {data} \cup (IF curated.raised THEN {} ELSE {curated.value}) :
        report' = [table |-> table, value |-> validate(heap[table])]
    /\ pc' = "reported"
    /\ UNCHANGED <<heap, data, rules, split, curated, first_pass, second_pass,
                   config_file, loaded>>
    /\ UNCHANGED agent_vars

\* a first engine with the leading rules, run on the caller's table
ApplyFirst ==
    /\ pc = "curated"
    /\ \E k \in 0..Len(rules) :
        LET outcome == apply_rules(heap, data, SubSeq(rules, 1, k))
        IN  /\ split' = k
            /\ heap' = outcome.heap
            /\ first_pass' = Handed(outcome)
            /\ pc' = IF outcome.raised THEN "compared" ELSE "first"
    /\ UNCHANGED <<data, rules, curated, second_pass, report, config_file, loaded>>
    /\ UNCHANGED agent_vars

\* a second engine with the remaining rules, run on what the first returned
ApplySecond ==
    /\ pc = "first"
    /\ LET outcome == apply_rules(heap, first_pass.value,
                                  SubSeq(rules, split + 1, Len(rules)))
       IN  /\ heap' = outcome.heap
           /\ second_pass' = Handed(outcome)
    /\ pc' = "compared"
    /\ UNCHANGED <<data, rules, split, curated, first_pass, report,
                   config_file, loaded>>
    /\ UNCHANGED agent_vars

NextRules ==
    \/ ApplyRules
    \/ ValidateTable
    \/ ApplyFirst
    \/ ApplySecond

SpecRules == InitRules /\ [][NextRules]_vars

----------------------------------------------------------------------------
(* config_parser.py.  A file is missing, is no YAML, or holds the Python
   value yaml.safe_load gives for its text (None for an empty file). *)

\* `key in v` for a string key: dict keys, list elements, substrings of a
\* string; any other value is not iterable
In(key, v) ==
    CASE v.t = "dict" -> Returned(key \in DOMAIN v.d)
      [] v.t = "list" -> Returned(\E i \in 1..Len(v.l) : v.l[i] = StrV(key))
      [] v.t = "str"  -> Returned(Contains(v.s, key))
      [] OTHER        -> Raised("TypeError")

\* v[key] for a string key
GetItem(v, key) ==
    IF v.t = "dict"
    THEN (IF key \in DOMAIN v.d THEN Returned(v.d[key]) ELSE Raised("KeyError"))
    ELSE Raised("TypeError")

\* a validation that checks the two keys only
_validate_config_structure_keys_only(config) ==
    LET has_name == In("name", config)
        has_rules == In("rules", config)
    IN  IF has_name.raised THEN has_name
        ELSE IF ~has_name.value THEN Raised("ValueError")
        ELSE IF has_rules.raised THEN has_rules
        ELSE IF ~has_rules.value THEN Raised("ValueError")
        ELSE Returned(NoneV)

_validate_config_structure(config) ==
    LET has_name == In("name", config)
        has_rules == In("rules", config)
        rule_list == GetItem(config, "rules")
    IN  IF has_name.raised THEN has_name
        ELSE IF ~has_name.value THEN Raised("ValueError")
        ELSE IF has_rules.raised THEN has_rules
        ELSE IF ~has_rules.value THEN Raised("ValueError")
        ELSE IF rule_list.raised THEN rule_list
        ELSE IF rule_list.value.t # "list" THEN Raised("ValueError")
        ELSE Returned(NoneV)

\* ConfigParser.parse(config_path)
parse(file) ==
    CASE file.kind = "missing"      -> Raised("FileNotFoundError")
      [] file.kind = "invalid_yaml" -> Raised("YAMLError")
      [] file.kind = "yaml" ->
            IF file.value = NoneV THEN Raised("ValueError")
            ELSE LET checked == _validate_config_structure(file.value)
                 IN  IF checked.raised THEN checked ELSE Returned(file.value)

\* what the "rules" key of a configuration holds
RulesEntries ==
    { <<>>, <<NoneV>>, <<StrV("filter")>>, <<IntV(3)>>,
      <<DictV(Filter(IdAbove1))>>,
      <<ListV(<<>>)>>,
      <<ListV(<< Filter(IdAbove1) >>)>>,
      <<ListV(<< Deduplicate("keep" :> StrV("last")) >>)>>,
      <<ListV(<< Filter(IdAbove1),
                 Transform(<< Column("name", "operation", "uppercase") >>) >>)>>,
      <<ListV(<< "type" :> StrV("sort") >>)>> }

NameEntries == { <<>>, <<NoneV>>, <<StrV("")>>, <<StrV("Test Config")>> }

VersionEntries == { <<>>, <<StrV("1.0.0")>> }

\* the values a YAML document loads to
Documents ==
    { DictV(Field("name", n) @@ Field("rules", r) @@ Field("version", v)) :
        n \in NameEntries, r \in RulesEntries, v \in VersionEntries }
    \cup { NoneV, StrV("name and rules"), StrV("rules"), IntV(1), BoolV(TRUE),
           ListV(<<>>), ListV(<<StrV("name"), StrV("rules")>>),
           ListV(<<StrV("name")>>) }

ConfigFiles ==
    { [kind |-> "missing"], [kind |-> "invalid_yaml"] }
    \cup { [kind |-> "yaml", value |-> d] : d \in Documents }

InitConfig ==
    /\ pc = "load"
    /\ config_file \in ConfigFiles
    /\ loaded = NoneV
    /\ heap = <<>>
    /\ data = NoneV
    /\ rules = <<>>
    /\ split = 0
    /\ curated = NoneV
    /\ first_pass = NoneV
    /\ second_pass = NoneV
    /\ report = NoneV
    /\ AgentIdle

\* config = ConfigParser().parse(path)
Parse ==
    /\ pc = "load"
    /\ loaded' = parse(config_file)
    /\ pc' = IF loaded'.raised THEN "failed" ELSE "loaded"
    /\ UNCHANGED <<heap, data, rules, split, curated, first_pass, second_pass,
                   report, config_file>>
    /\ UNCHANGED agent_vars

\* RulesEngine(config): self.rules = config.get('rules', [])
Construct ==
    /\ pc = "loaded"
    /\ rules' = Get(loaded.value.d, "rules", ListV(<<>>)).l
    /\ pc' = "constructed"
    /\ UNCHANGED <<heap, data, split, curated, first_pass, second_pass, report,
                   config_file, loaded>>
    /\ UNCHANGED agent_vars

NextConfig ==
    \/ Parse
    \/ Construct

SpecConfig == InitConfig /\ [][NextConfig]_vars

----------------------------------------------------------------------------
(* Vocabulary of the properties, stated without the code's own helpers *)

\* k occurs in s when letter case is ignored
CharAt(s, i) == SubSeq(s, i, i)

CIContains(s, k) ==
    \E i \in 1..(Len(s) - Len(k) + 1) :
        \A j \in 1..Len(k) :
            LowerChar(CharAt(s, i + j - 1)) = LowerChar(CharAt(k, j))

\* the categories in declaration order
CategoryOrder == <<"timeout", "resource", "permission", "syntax", "network", "data">>

KeywordsOf(category) ==
    LET p == CHOOSE q \in {error_patterns[i] : i \in 1..Len(error_patterns)} :
                 q.error_type = category
    IN  {p.keywords[j] : j \in 1..Len(p.keywords)}

PatternOf(category) ==
    CHOOSE q \in {error_patterns[i] : i \in 1..Len(error_patterns)} :
        q.error_type = category

\* the positions in CategoryOrder of the categories having a keyword in msg
Hits(msg) ==
    {i \in 1..Len(CategoryOrder) :
        \E k \in KeywordsOf(CategoryOrder[i]) : CIContains(msg, k)}

Min(S) == CHOOSE m \in S : \A n \in S : m <= n

\* the tag the external analysis names, in any letter case; "" when it names none
NamedTag(llm) ==
    IF /\ llm.t = "dict"
       /\ "recommendation" \in DOMAIN llm.d
       /\ llm.d["recommendation"].t = "str"
       /\ \E tag \in DecisionAction : lower(tag) = lower(llm.d["recommendation"].s)
    THEN CHOOSE tag \in DecisionAction : lower(tag) = lower(llm.d["recommendation"].s)
    ELSE ""

Decided == pc = "decided"
Classified == pc = "classified"
DecisionReturned == Decided /\ ~decision.raised

----------------------------------------------------------------------------
(* Properties of make_decision, checked under SpecDecide *)

\* C1, as stated: for every error message, every external analysis and every
\* attempt_number >= max_retries, a decision that make_decision returns has
\* action SEND_EMAIL.  (Refuted: an ESCALATE or IGNORE recommendation is kept.)
C1_AlwaysSendEmail ==
    (DecisionReturned /\ attempt_number >= max_retries)
        => decision.value.action = "SEND_EMAIL"

\* C1, amended: for every error message, every external analysis and every
\* attempt_number >= max_retries, a decision that make_decision returns has
\* action SEND_EMAIL unless the external analysis recommends ESCALATE or IGNORE
\* (in any letter case), in which case the action is that recommendation.
C1_SendEmailUnlessEscalateOrIgnore ==
    (DecisionReturned /\ attempt_number >= max_retries)
        => IF NamedTag(llm_analysis) \in {"ESCALATE", "IGNORE"}
           THEN decision.value.action = NamedTag(llm_analysis)
           ELSE decision.value.action = "SEND_EMAIL"

\* C1 witness: at the retry limit the classifier's RETRY was turned into
\* SEND_EMAIL with the "max retries exceeded" reason.
C1_Witness ==
    /\ DecisionReturned
    /\ attempt_number = max_retries
    /\ llm_analysis = NoneV
    /\ pattern_result.action = "RETRY"
    /\ decision.value.action = "SEND_EMAIL"
    /\ decision.value.reason = StrV("Max retries (3) exceeded")

\* C2: whatever the external analysis recommends, RETRY and
\* RETRY_WITH_NEW_PARAMS included, a decision returned by make_decision with
\* attempt_number >= max_retries never has action RETRY or
\* RETRY_WITH_NEW_PARAMS: the budget check runs after the combination.
C2_RetryBudgetNotBypassed ==
    (DecisionReturned /\ attempt_number >= max_retries)
        => decision.value.action \notin {"RETRY", "RETRY_WITH_NEW_PARAMS"}

\* C2 witness: the external analysis recommended a retry for an error the
\* classifier would only report, the combination took the retry, and the
\* budget check then replaced it.
C2_Witness ==
    /\ DecisionReturned
    /\ attempt_number >= max_retries
    /\ NamedTag(llm_analysis) = "RETRY_WITH_NEW_PARAMS"
    /\ pattern_result.action = "SEND_EMAIL"
    /\ combined.value.action = "RETRY_WITH_NEW_PARAMS"
    /\ decision.value.action = "SEND_EMAIL"

\* C4, as stated: make_decision never fails: for every external analysis,
\* including one whose recommendation is not a string or whose severity is
\* present but null, it returns a decision instead of raising.
C4_NeverRaises == Decided => ~decision.raised

\* the analyses of C5's cases: the recommendation is absent, null or a string
\* (empty, a tag name, or no tag name) and the severity is absent or a string
StringFields(llm) ==
    \/ llm.t # "dict"
    \/ /\ Get(llm.d, "recommendation", NoneV).t \in {"none", "str"}
       /\ Get(llm.d, "severity", StrV("")).t = "str"

\* C5: when the external analysis is present and its recommendation names a
\* valid action tag in any letter case, a decision is built whose action,
\* before the retry-budget check, is that tag; for every other recommendation
\* (absent, empty, not a tag name) it is the classifier's action.
C5_RecommendationOrClassifier ==
    (Decided /\ StringFields(llm_analysis))
        => /\ ~combined.raised
           /\ combined.value.action =
                 (IF NamedTag(llm_analysis) # ""
                  THEN NamedTag(llm_analysis)
                  ELSE pattern_result.action)

\* C5 witness: a recommendation in mixed letter case that differs from the
\* classifier's action was taken.
C5_Witness ==
    /\ Decided
    /\ ~combined.raised
    /\ llm_analysis.t = "dict"
    /\ "recommendation" \in DOMAIN llm_analysis.d
    /\ llm_analysis.d["recommendation"] = StrV("Retry_With_New_Params")
    /\ pattern_result.action = "RETRY"
    /\ combined.value.action = "RETRY_WITH_NEW_PARAMS"

----------------------------------------------------------------------------
(* Properties of _analyze_error_pattern, checked under SpecClassify *)

\* C6: classification is first-match in declaration order (timeout, resource,
\* permission, syntax, network, data): the result is the first category of
\* that order having a keyword that is a case-insensitive substring of the
\* message, with that category's action and priority and one of its keywords
\* as the matched keyword; later categories do not change it.
C6_FirstMatchInDeclarationOrder ==
    Classified
        => LET hits == Hits(error_message)
               first == CategoryOrder[Min(hits)]
           IN  hits # {} =>
               /\ pattern_result.error_type = first
               /\ pattern_result.action = PatternOf(first).action
               /\ pattern_result.priority = PatternOf(first).priority
               /\ pattern_result.matched_keyword.t = "str"
               /\ pattern_result.matched_keyword.s \in KeywordsOf(first)
               /\ CIContains(error_message, pattern_result.matched_keyword.s)

\* C6 witness: a message with keywords of two categories, in the message in
\* the opposite order, got the category declared first.
C6_Witness ==
    /\ Classified
    /\ error_message = "not foundaccess denied"
    /\ Hits(error_message) = {3, 6}
    /\ pattern_result.error_type = "permission"

\* C7, as stated: every message containing "permission denied", whatever else
\* it contains, is classified as permission with action SEND_EMAIL.
C7_PermissionDeniedAlways ==
    (Classified /\ CIContains(error_message, "permission denied"))
        => /\ pattern_result.error_type = "permission"
           /\ pattern_result.action = "SEND_EMAIL"

\* C7, amended: every message containing "permission denied" and no keyword
\* of the two categories declared earlier (timeout, resource) is classified
\* as permission with action SEND_EMAIL.
C7_PermissionDeniedUnlessEarlier ==
    (/\ Classified
     /\ CIContains(error_message, "permission denied")
     /\ Hits(error_message) \cap {1, 2} = {})
        => /\ pattern_result.error_type = "permission"
           /\ pattern_result.action = "SEND_EMAIL"

\* C7 witness: "permission denied" in another letter case, followed by a
\* keyword of a later category.
C7_Witness ==
    /\ Classified
    /\ error_message = "Permission Deniednot found"
    /\ pattern_result.error_type = "permission"
    /\ pattern_result.action = "SEND_EMAIL"

\* C8: every message containing "timed out", whatever else it contains, is
\* classified as timeout with action RETRY.
C8_TimedOutAlways ==
    (Classified /\ CIContains(error_message, "timed out"))
        => /\ pattern_result.error_type = "timeout"
           /\ pattern_result.action = "RETRY"

\* C8 witness: "timed out" after a keyword of another category.
C8_Witness ==
    /\ Classified
    /\ error_message = "permission deniedTimed Out"
    /\ pattern_result.error_type = "timeout"
    /\ pattern_result.action = "RETRY"

\* C9: a message containing no keyword of any category is classified as
\* unknown with action SEND_EMAIL, priority medium and no matched keyword;
\* classification always returns a result and calls no collaborator.
C9_UnknownDefault ==
    Classified
        => /\ DOMAIN pattern_result =
                {"error_type", "action", "priority", "matched_keyword"}
           /\ calls = <<>>
           /\ Hits(error_message) = {}
                => pattern_result = [error_type      |-> "unknown",
                                     action          |-> "SEND_EMAIL",
                                     priority        |-> "medium",
                                     matched_keyword |-> NoneV]

\* C9 witness: a message without any keyword was classified as unknown.
C9_Witness ==
    /\ Classified
    /\ error_message = "Job  after 3600 seconds"
    /\ pattern_result.error_type = "unknown"
    /\ pattern_result.matched_keyword = NoneV

----------------------------------------------------------------------------
(* Properties of process_failed_job and of dispatch, checked under Spec *)

\* the collaborator calls made by _execute_action: those after get_job_run,
\* get_job_run_output and analyze_error
DispatchCalls == SubSeq(calls, 4, Len(calls))

Dispatched == pc = "done" /\ action_result # NoneV

DecisionMade == pc \in {"execute", "done"} /\ decision # NoneV

AnalysisFailed ==
    \E i \in 1..Len(calls) : calls[i].op = "analyze_error" /\ ~calls[i].ok

FailedDuringDispatch(op) ==
    \E i \in 1..Len(DispatchCalls) : DispatchCalls[i].op = op /\ ~DispatchCalls[i].ok

DraftUnusable ==
    \E i \in 1..Len(DispatchCalls) :
        /\ DispatchCalls[i].op = "generate_email_content"
        /\ DispatchCalls[i].content.t # "dict"

FailureStatus(status) == EndsWith(status, "_error") \/ EndsWith(status, "_failed")

\* C3, as stated: when the analysis collaborator fails, the decision for the
\* job equals the pattern-only decision for the same error message and
\* attempt number.
C3_FailedAnalysisIsAbsent ==
    (DecisionMade /\ AnalysisFailed)
        => decision = make_decision(error_message, CurrentJobContext, NoneV)

\* C3, amended: when the analysis collaborator fails or answers something
\* that is no JSON object, the caller does not crash: the analysis is
\* replaced by a fallback that recommends send_email, so the decision for the
\* job has action SEND_EMAIL whatever the classifier chose, the reason
\* "LLM analysis failed, manual review needed", and the classifier's category
\* and priority.
C3_FailedAnalysisSendsEmail ==
    (DecisionMade /\ AnalysisFailed)
        => /\ ~decision.raised
           /\ decision.value.action = "SEND_EMAIL"
           /\ decision.value.reason = StrV("LLM analysis failed, manual review needed")
           /\ decision.value.error_category = StrV(pattern_result.error_type)
           /\ decision.value.priority = StrV(pattern_result.priority)
           /\ decision.value.attempt_number = attempt_number

\* C3 witness: on a first attempt the classifier chose RETRY, the analysis
\* failed, and the job's decision is SEND_EMAIL.
C3_Witness ==
    /\ DecisionMade
    /\ AnalysisFailed
    /\ attempt_number = 1
    /\ pattern_result.action = "RETRY"
    /\ decision.value.action = "SEND_EMAIL"

\* C10, as stated: for every decision action and every failure of a
\* collaborator call made while dispatching it (cancel, submit, parameter
\* extraction, drafting, send), _execute_action returns a result whose status
\* ends in _error or _failed.
C10_AnyFailureGivesFailureStatus ==
    (Dispatched /\ \E i \in 1..Len(DispatchCalls) : ~DispatchCalls[i].ok)
        => /\ ~action_result.raised
           /\ FailureStatus(action_result.value["status"].s)

\* C10, amended: dispatch never throws: for every decision action and every
\* failure of a collaborator call made while dispatching it, _execute_action
\* returns a result with a status.  The status ends in _error or _failed
\* exactly when the submit failed, the send failed or the drafted content is
\* no JSON object; a failed cancel, a failed parameter extraction and a failed
\* drafting (replaced by the fixed template) are absorbed.
C10_DispatchNeverThrows ==
    Dispatched
        => /\ ~action_result.raised
           /\ result.success
           /\ "status" \in DOMAIN action_result.value
           /\ action_result.value["status"].t = "str"
           /\ FailureStatus(action_result.value["status"].s)
                <=> \/ FailedDuringDispatch("submit_job_run")
                    \/ FailedDuringDispatch("send_error_notification")
                    \/ DraftUnusable

\* C10 witness: drafting failed and the send failed while dispatching
\* SEND_EMAIL, and _execute_action returned notification_failed.
C10_Witness ==
    /\ Dispatched
    /\ FailedDuringDispatch("generate_email_content")
    /\ FailedDuringDispatch("send_error_notification")
    /\ ~action_result.raised
    /\ action_result.value["status"] = StrV("notification_failed")

----------------------------------------------------------------------------
(* Claims about the curation engine, checked under SpecRules *)

Curated == pc \in {"curated", "reported", "first", "compared"}

\* two ends of apply_rules agree: the same exception, or equal tables
SameEnd(a, b) ==
    IF a.raised \/ b.raised THEN a = b ELSE heap[a.value] = heap[b.value]

(* C11: apply_rules is a left-to-right fold.  For every table and every split
   of a rule list into leading and remaining rules, applying the leading
   rules and then the remaining rules to that result ends as applying the
   whole list once does: the same table, or the same exception. *)
C11_SplitAppliesTheSame ==
    pc = "compared" =>
        IF first_pass.raised THEN curated = first_pass
        ELSE SameEnd(curated, second_pass)

\* both halves of a split changed the table
C11_Witness ==
    /\ pc = "compared"
    /\ Len(rules) = 2
    /\ split = 1
    /\ ~first_pass.raised
    /\ ~second_pass.raised
    /\ heap[first_pass.value] # heap[data]
    /\ heap[second_pass.value] # heap[first_pass.value]
    /\ SameEnd(curated, second_pass)

(* C12: apply_rules never modifies or aliases the caller's table.  Over the
   call, for any rule list, the caller's table keeps its columns, rows and
   values, and the table handed back is another object than the caller's. *)
C12_CallerTableKept ==
    [][(pc = "curate" /\ pc' = "curated") =>
          /\ data' = data
          /\ heap'[data] = heap[data]
          /\ ~curated'.raised =>
                (curated'.value # data /\ curated'.value \in DOMAIN heap')]_vars

\* a transform rule ran and the table handed back differs from the caller's
C12_Witness ==
    /\ pc = "curated"
    /\ \E i \in 1..Len(rules) : Get(rules[i], "type", NoneV) = StrV("transform")
    /\ ~curated.raised
    /\ heap[curated.value] # heap[data]
    /\ heap[data] = SampleData

\* the claim's reading of isolation: a rule whose handler raises leaves the
\* table as it was, and the loop goes on
RECURSIVE isolating_loop(_, _, _, _)
isolating_loop(h, ref, rule_list, i) ==
    IF i > Len(rule_list) THEN Ok(h, ref)
    ELSE LET rule == rule_list[i]
             rule_type == Get(rule, "type", NoneV)
             step == handler(rule_type, h, ref, rule)
         IN  IF rule_type \notin RULE_HANDLERS \/ step.raised
             THEN isolating_loop(h, ref, rule_list, i + 1)
             ELSE isolating_loop(step.heap, step.ref, rule_list, i + 1)

\* what apply_rules ended with: its exception, or the content of its table
CuratedEnd ==
    IF curated.raised THEN curated ELSE Returned(heap[curated.value])

EndOf(outcome) ==
    IF outcome.raised THEN Raised(outcome.exc)
    ELSE Returned(outcome.heap[outcome.ref])

(* C13: an execution error in one rule (a bad filter predicate, or a
   transform, validate or deduplicate rule that names a missing column or an
   invalid keep policy) is isolated to that rule: apply_rules does not raise,
   the table stays as it was after the previous rule, and the remaining
   rules are still applied. *)
C13_RuleErrorsIsolated ==
    Curated =>
        /\ ~curated.raised
        /\ CuratedEnd = EndOf(isolating_loop(<<heap[data]>>, 1, rules, 1))

\* the rules of known type, in order
Known(rule_list) ==
    SelectSeq(rule_list, LAMBDA rule : Get(rule, "type", NoneV) \in RULE_HANDLERS)

(* C14: a rule whose type is not one of filter, transform, validate,
   deduplicate (a rule with no type included) is skipped.  apply_rules ends
   exactly as it does on the list without the rules of unknown type, so an
   unknown rule neither raises nor changes the table, and the rules before
   and after it take effect as if it were not in the list. *)
C14_UnknownRulesSkipped ==
    Curated =>
        /\ CuratedEnd = EndOf(apply_rules(<<heap[data]>>, 1, Known(rules)))
        /\ Known(rules) = <<>> => CuratedEnd = Returned(heap[data])

\* a rule of unknown type is followed by a rule that changes the table
C14_Witness ==
    /\ pc = "curated"
    /\ Len(rules) = 2
    /\ Get(rules[1], "type", NoneV) \notin RULE_HANDLERS
    /\ Get(rules[2], "type", NoneV) \in RULE_HANDLERS
    /\ ~curated.raised
    /\ heap[curated.value] # heap[data]

\* the k-th smallest element of a set of positions
Nth(S, k) == CHOOSE i \in S : Cardinality({j \in S : j < i}) = k - 1

\* the rows of table df at the positions S, in their original order
RowsAt(df, S) == [k \in 1..Cardinality(S) |-> df.rows[Nth(S, k)]]

\* the single rule of a one-rule list that has run
OnlyRule == rules[1]
RanOneRule(type) ==
    /\ pc = "curated"
    /\ Len(rules) = 1
    /\ Get(OnlyRule, "type", NoneV) = StrV(type)

\* a predicate <column> <op> <literal> that compares an existing column with
\* a literal of the column's type
WellFormed(df, condition) ==
    /\ condition.t = "str"
    /\ condition.s # ""
    /\ condition.ast.kind = "compare"
    /\ condition.ast.column \in ColumnSet(df)
    /\ IF df.dtypes[condition.ast.column] = "object"
       THEN condition.ast.literal.t = "str" /\ condition.ast.op \in {"==", "!="}
       ELSE condition.ast.literal.t = "int"

\* the predicate is true of a row: a null entry satisfies only !=
Satisfies(row, ast) ==
    LET v == row[ast.column]
    IN  CASE ast.op = "==" -> v = ast.literal
          [] ast.op = "!=" -> v # ast.literal
          [] ast.op = ">"  -> v # NoneV /\ v.n > ast.literal.n
          [] ast.op = ">=" -> v # NoneV /\ v.n >= ast.literal.n
          [] ast.op = "<"  -> v # NoneV /\ v.n < ast.literal.n
          [] ast.op = "<=" -> v # NoneV /\ v.n <= ast.literal.n

(* C15: a filter rule with a well-formed predicate returns exactly the rows
   of its input for which the predicate is true, in their original relative
   order and with the index 0..n-1; no row satisfying the predicate is
   dropped and no row violating it is kept. *)
C15_FilterKeepsExactlyTheTrueRows ==
    (RanOneRule("filter") /\ WellFormed(heap[data], Get(OnlyRule, "condition", NoneV))) =>
        LET input == heap[data]
            ast == OnlyRule["condition"].ast
            true == {i \in 1..Len(input.rows) : Satisfies(input.rows[i], ast)}
        IN  /\ ~curated.raised
            /\ heap[curated.value].rows = RowsAt(input, true)
            /\ heap[curated.value].index = [k \in 1..Cardinality(true) |-> k - 1]
            /\ heap[curated.value].columns = input.columns

\* `id > 1` on the five-row fixture: rows 2..5 survive, re-indexed from 0
C15_Witness ==
    /\ RanOneRule("filter")
    /\ heap[data] = SampleData
    /\ Get(OnlyRule, "condition", NoneV) = IdAbove1
    /\ ~curated.raised
    /\ Len(heap[curated.value].rows) = 4
    /\ heap[curated.value].index = <<0, 1, 2, 3>>

\* a deduplicate rule the claim is about: keep 'first' (or absent) or 'last',
\* subset absent or a non-empty list of columns of the table
PlainDeduplicate(df, rule) ==
    /\ Get(rule, "keep", StrV("first")) \in {StrV("first"), StrV("last")}
    /\ "subset" \in DOMAIN rule =>
          /\ rule["subset"].t = "list"
          /\ Len(rule["subset"].l) > 0
          /\ \A i \in 1..Len(rule["subset"].l) : rule["subset"].l[i].s \in ColumnSet(df)

\* the columns a deduplicate rule compares
SubsetOf(df, rule) ==
    IF "subset" \in DOMAIN rule
    THEN {rule["subset"].l[i].s : i \in 1..Len(rule["subset"].l)}
    ELSE ColumnSet(df)

(* C16: a deduplicate rule returns exactly one row per distinct value of the
   subset columns (of all columns when subset is absent): the first
   occurrence under keep='first', the last under keep='last', with the
   survivors in their original relative order and the index 0..n-1. *)
C16_OneRowPerDistinctKey ==
    (RanOneRule("deduplicate") /\ PlainDeduplicate(heap[data], OnlyRule)) =>
        LET input == heap[data]
            cols == SubsetOf(input, OnlyRule)
            value(i) == [c \in cols |-> input.rows[i][c]]
            n == Len(input.rows)
            first == {i \in 1..n : \A j \in 1..(i - 1) : value(j) # value(i)}
            last == {i \in 1..n : \A j \in (i + 1)..n : value(j) # value(i)}
            kept == IF Get(OnlyRule, "keep", StrV("first")) = StrV("last")
                    THEN last ELSE first
        IN  /\ ~curated.raised
            /\ heap[curated.value].rows = RowsAt(input, kept)
            /\ Len(heap[curated.value].rows) = Cardinality({value(i) : i \in 1..n})
            /\ heap[curated.value].index =
                  [k \in 1..Len(heap[curated.value].rows) |-> k - 1]

\* keep='last' on rows that agree on id and differ on name: (1,A') and (2,B)
C16_Witness ==
    /\ RanOneRule("deduplicate")
    /\ heap[data] = SameIdData
    /\ Get(OnlyRule, "keep", NoneV) = StrV("last")
    /\ Get(OnlyRule, "subset", NoneV) = Names(<<"id">>)
    /\ ~curated.raised
    /\ heap[curated.value].rows = << Row2(IntV(1), StrV("A'")), Row2(IntV(2), StrV("B")) >>

(* C17: the validation report of any table has total_records equal to the
   table's row count and, for every column, missing_values[column] equal to
   the number of null entries of that column, which lies between 0 and
   total_records; producing the report does not modify the table. *)
C17_ReportCountsRowsAndNulls ==
    [][(pc = "curated" /\ pc' = "reported") =>
          LET table == heap[report'.table]
              nulls(c) == Cardinality({i \in 1..Len(table.rows) :
                                          table.rows[i][c].t = "none"})
          IN  /\ heap' = heap
              /\ report'.value.total_records = Len(table.rows)
              /\ DOMAIN report'.value.missing_values = ColumnSet(table)
              /\ \A c \in ColumnSet(table) :
                    /\ report'.value.missing_values[c] = nulls(c)
                    /\ report'.value.missing_values[c] \in 0..Len(table.rows)]_vars

\* the five-row fixture with one null email
C17_Witness ==
    /\ pc = "reported"
    /\ heap[report.table] = SampleData
    /\ report.value.total_records = 5
    /\ report.value.missing_values["email"] = 1
    /\ report.value.missing_values["id"] = 0

----------------------------------------------------------------------------
(* Claims about the configuration parser, checked under SpecConfig *)

Parsed == pc \in {"failed", "loaded", "constructed"}

\* the file holds a mapping with both required keys and a list of rules
UsableConfig(file) ==
    /\ file.kind = "yaml"
    /\ file.value.t = "dict"
    /\ "name" \in DOMAIN file.value.d
    /\ "rules" \in DOMAIN file.value.d
    /\ file.value.d["rules"].t = "list"

(* C18: loading a rule configuration fails with an error at load time,
   returning no configuration, whenever the file is missing or empty, the
   `name` key or the `rules` key is absent, or `rules` is not a list; only a
   configuration with both keys and a list of rules is returned, and only
   such a configuration reaches the engine. *)
C18_OnlyUsableConfigLoads ==
    /\ Parsed => (loaded.raised <=> ~UsableConfig(config_file))
    /\ (Parsed /\ ~loaded.raised) => loaded.value = config_file.value
    /\ pc = "constructed" =>
          (UsableConfig(config_file) /\ ListV(rules) = config_file.value.d["rules"])

\* a mapping with both keys whose rules are no list was refused
C18_Witness ==
    /\ pc = "failed"
    /\ config_file.kind = "yaml"
    /\ config_file.value.t = "dict"
    /\ {"name", "rules"} \subseteq DOMAIN config_file.value.d
    /\ config_file.value.d["rules"] = StrV("filter")
    /\ loaded = Raised("ValueError")

----------------------------------------------------------------------------
(* Further properties of make_decision, checked under SpecDecide *)

\* the external value is present and non-empty
Given(llm, field) == field \in DOMAIN llm.d /\ Truthy(llm.d[field])

\* the external value when given, else the classifier's side
ExternalOr(llm, field, classifier) ==
    IF Given(llm, field) THEN llm.d[field] ELSE classifier

(* C19, as stated: in a decision built with an external analysis, every field
   other than the action (error_category, root_cause, reason, priority,
   recipient_team) takes the external value when that value is present and
   non-empty and otherwise the value the engine has without it (the
   classifier's category, priority and matched keyword, "Unknown", "DevOps");
   the priority of every decision is lower-case.  (Refuted: an external value
   that is present and empty is taken as it is.) *)
C19_FieldsExternalWhenNonEmpty ==
    /\ (Decided /\ Truthy(llm_analysis) /\ ~combined.raised) =>
          LET built == combined.value
              llm == llm_analysis
          IN  /\ built.error_category =
                    ExternalOr(llm, "error_category", StrV(pattern_result.error_type))
              /\ built.root_cause = ExternalOr(llm, "root_cause", StrV("Unknown"))
              /\ built.reason =
                    ExternalOr(llm, "reason",
                               Or(pattern_result.matched_keyword, StrV("Pattern matched")))
              /\ built.priority =
                    IF Given(llm, "severity")
                    THEN StrV(lower(llm.d["severity"].s))
                    ELSE StrV(pattern_result.priority)
              /\ built.recipient_team = ExternalOr(llm, "recipient_team", StrV("DevOps"))
    /\ DecisionReturned =>
          decision.value.priority.s = lower(decision.value.priority.s)

----------------------------------------------------------------------------
(* Further properties of the dispatch, checked under Spec *)

RetryDispatched ==
    Dispatched /\ ~decision.raised /\ decision.value.action = "RETRY"

(* C20: dispatching RETRY first requests cancellation of the existing run and
   then submits a new run of the same job with the job's unchanged
   parameters; the submit happens whether or not the cancellation succeeded,
   and the result reports the new run id on success and a failure status
   otherwise. *)
C20_RetryCancelsThenSubmits ==
    RetryDispatched =>
        /\ Len(DispatchCalls) = 2
        /\ DispatchCalls[1].op = "cancel_job_run"
        /\ DispatchCalls[1].run_id = 456
        /\ DispatchCalls[2].op = "submit_job_run"
        /\ DispatchCalls[2].job_id = 123
        /\ DispatchCalls[2].parameters =
              Get(run_details.d, "job_parameters", DictV(EmptyDict))
        /\ ~action_result.raised
        /\ IF DispatchCalls[2].ok
           THEN /\ action_result.value["status"] = StrV("retry_submitted")
                /\ "new_run_id" \in DOMAIN action_result.value
           ELSE /\ FailureStatus(action_result.value["status"].s)
                /\ "new_run_id" \notin DOMAIN action_result.value

\* the cancellation failed and the new run was submitted all the same, with
\* the parameters of the failed run
C20_Witness ==
    /\ RetryDispatched
    /\ ~DispatchCalls[1].ok
    /\ DispatchCalls[2].ok
    /\ DispatchCalls[2].parameters = DictV("memory_gb" :> IntV(8))
    /\ action_result.value["status"] = StrV("retry_submitted")

RetryWithParamsDispatched ==
    Dispatched /\ ~decision.raised /\ decision.value.action = "RETRY_WITH_NEW_PARAMS"

\* the call to submit_job_run among the dispatch calls
SubmitCall == DispatchCalls[Len(DispatchCalls)]

(* C21: dispatching RETRY_WITH_NEW_PARAMS submits the new run with the
   decision's suggested_params when they are given (present and non-empty),
   and otherwise with what the extraction step returned for the decision,
   which is called only then; the parameters echoed in the result are
   exactly the parameters passed to submit_job_run. *)
C21_SubmitsSuggestedOrExtracted ==
    RetryWithParamsDispatched =>
        LET suggested == decision.value.suggested_params
            extraction == DispatchCalls[1]
        IN  /\ SubmitCall.op = "submit_job_run"
            /\ IF Truthy(suggested)
               THEN /\ Len(DispatchCalls) = 2
                    /\ DispatchCalls[1].op = "cancel_job_run"
                    /\ SubmitCall.parameters = suggested
               ELSE /\ Len(DispatchCalls) = 3
                    /\ extraction.op = "extract_parameters_for_retry"
                    /\ DispatchCalls[2].op = "cancel_job_run"
                    /\ SubmitCall.parameters = extraction.value
                    /\ extraction.value =
                          IF suggested.t = "str" THEN DictV(EmptyDict) ELSE suggested
            /\ ~action_result.raised
            /\ SubmitCall.ok =>
                  /\ action_result.value["status"] = StrV("retry_with_params_submitted")
                  /\ action_result.value["new_parameters"] = SubmitCall.parameters
            /\ "new_parameters" \in DOMAIN action_result.value =>
                  action_result.value["new_parameters"] = SubmitCall.parameters

\* suggested parameters that differ from the run's own were submitted
C21_Witness ==
    /\ RetryWithParamsDispatched
    /\ decision.value.suggested_params = DictV("memory_gb" :> IntV(16))
    /\ CurrentJobContext.parameters = DictV("memory_gb" :> IntV(8))
    /\ SubmitCall.ok
    /\ action_result.value["new_parameters"] = DictV("memory_gb" :> IntV(16))

SendEmailDispatched ==
    Dispatched /\ ~decision.raised /\ decision.value.action = "SEND_EMAIL"

\* the message generate_email_content handed back to the agent
DraftedContent == DispatchCalls[1].content

\* C22: dispatching SEND_EMAIL drafts a subject and body through the analysis
\* collaborator (the fixed template when drafting fails) and sends that
\* drafted message through the notification channel; the status is
\* notification_sent exactly when the channel reports success and
\* notification_failed when it reports not sent, and the result lists the
\* recipients.
C22_SendsTheDraftedMessage ==
    SendEmailDispatched =>
        /\ Len(DispatchCalls) = 2
        /\ DispatchCalls[1].op = "generate_email_content"
        /\ ~DispatchCalls[1].ok => DraftedContent = email_template
        /\ DispatchCalls[2].op = "send_error_notification"
        /\ DraftedContent.t = "dict"
        /\ StrV(DispatchCalls[2].subject) = Get(DraftedContent.d, "subject", NoneV)
        /\ ~action_result.raised
        /\ action_result.value["status"] =
              StrV(IF DispatchCalls[2].ok THEN "notification_sent"
                   ELSE "notification_failed")
        /\ action_result.value["recipients"] = ListV(DispatchCalls[2].recipients)

EscalateDispatched ==
    Dispatched /\ ~decision.raised /\ decision.value.action = "ESCALATE"

(* C23: dispatching ESCALATE makes no call to the job-control, analysis or
   notification collaborators and always returns a result marked as
   requiring manual review that carries the decision's error category and
   priority. *)
C23_EscalateCallsNobody ==
    EscalateDispatched =>
        /\ DispatchCalls = <<>>
        /\ Len(calls) = 3
        /\ ~action_result.raised
        /\ action_result.value["status"] = StrV("escalated")
        /\ action_result.value["requires_manual_review"] = IntV(1)
        /\ action_result.value["error_category"] = decision.value.error_category
        /\ action_result.value["priority"] = decision.value.priority
        /\ result.success

\* an escalation recommended by the analysis for a permission error: the
\* classifier's category and the decision's priority are in the result
C23_Witness ==
    /\ EscalateDispatched
    /\ llm_analysis.d = ("recommendation" :> StrV("Escalate"))
    /\ decision.value.error_category = StrV("permission")
    /\ action_result.value["error_category"] = StrV("permission")
    /\ action_result.value["priority"] = decision.value.priority
    /\ action_result.value["requires_manual_review"] = IntV(1)

UnhandledDispatched ==
    /\ Dispatched /\ ~decision.raised
    /\ decision.value.action \notin {"RETRY", "RETRY_WITH_NEW_PARAMS", "SEND_EMAIL", "ESCALATE"}

\* C24, as stated: dispatching a decision whose action is IGNORE or any value
\* outside the four handled tags returns a marker with status `unhandled`,
\* raises nothing and calls no collaborator.
C24_UnhandledStatus ==
    UnhandledDispatched =>
        /\ ~action_result.raised
        /\ action_result.value["status"] = StrV("unhandled")
        /\ DispatchCalls = <<>>

(* C24, amended: dispatching a decision whose action is IGNORE or any value
   outside the four handled tags returns a marker whose only entry is the
   status `unknown_action`, raises nothing and calls no collaborator, and
   process_failed_job reports success. *)
C24_UnknownActionStatus ==
    UnhandledDispatched =>
        /\ ~action_result.raised
        /\ action_result.value = ("status" :> StrV("unknown_action"))
        /\ DispatchCalls = <<>>
        /\ result.success

\* the analysis recommended to ignore the failure
C24_Witness ==
    /\ UnhandledDispatched
    /\ decision.value.action = "IGNORE"
    /\ llm_analysis.d["recommendation"] = StrV("ignore")
    /\ action_result.value["status"] = StrV("unknown_action")

----------------------------------------------------------------------------
(* Further claims about the curation engine, checked under SpecRules *)

\* pandas cannot evaluate the predicate on the table: the text is no
\* expression, names no column of the table, or orders values against a
\* literal of another type
Unevaluable(df, condition) ==
    \/ condition.ast.kind = "syntax_error"
    \/ /\ condition.ast.kind = "compare"
       /\ \/ condition.ast.column \notin ColumnSet(df)
          \/ /\ condition.ast.op \in Ordering
             /\ IF df.dtypes[condition.ast.column] = "object"
                THEN /\ condition.ast.literal.t = "int"
                     /\ \E i \in 1..Len(df.rows) :
                           df.rows[i][condition.ast.column] # NoneV
                ELSE condition.ast.literal.t = "str"

\* a filter rule with no predicate (absent, or empty text) or with one that
\* cannot be evaluated on the table
BrokenFilter(df, rule) ==
    /\ Get(rule, "type", NoneV) = StrV("filter")
    /\ LET condition == Get(rule, "condition", NoneV)
       IN  ~Truthy(condition) \/ Unevaluable(df, condition)

\* the list without its i-th rule
Without(rule_list, i) ==
    SubSeq(rule_list, 1, i - 1) \o SubSeq(rule_list, i + 1, Len(rule_list))

(* C25: a filter rule whose predicate is missing or cannot be evaluated is a
   no-op.  It hands back the very table it received, with the same rows in
   the same order and the same index, and the rules after it are still
   applied: apply_rules ends, objects included, as it does on the list
   without that rule. *)
C25_BrokenFilterIsNoOp ==
    pc = "curated" =>
        \A i \in 1..Len(rules) :
            LET before == apply_rules(<<heap[data]>>, 1, SubSeq(rules, 1, i - 1))
                after == apply_rules(<<heap[data]>>, 1, SubSeq(rules, 1, i))
                expected == apply_rules(<<heap[data]>>, 1, Without(rules, i))
            IN  (~before.raised /\ BrokenFilter(before.heap[before.ref], rules[i])) =>
                    /\ after = before
                    /\ curated = Handed(expected)
                    /\ heap = expected.heap
                    /\ Len(rules) = 1 =>
                          /\ ~curated.raised
                          /\ heap[curated.value] = heap[data]

\* a filter without predicate is followed by a transform that changes the
\* table
C25_Witness ==
    /\ pc = "curated"
    /\ Len(rules) = 2
    /\ Get(rules[1], "type", NoneV) = StrV("filter")
    /\ "condition" \notin DOMAIN rules[1]
    /\ Get(rules[2], "type", NoneV) = StrV("transform")
    /\ ~curated.raised
    /\ heap[curated.value] # heap[data]
    /\ heap[curated.value].index = heap[data].index

\* the pairs of a transform rule
Pairs(rule) == Get(rule, "transforms", ListV(<<>>)).l

\* a pair the rule can apply: it names a column of the table and one of the
\* three operations
Applicable(df, pair) ==
    /\ Get(pair.d, "column", NoneV).t = "str"
    /\ pair.d["column"].s \in ColumnSet(df)
    /\ Get(pair.d, "operation", NoneV) \in
          {StrV("lowercase"), StrV("uppercase"), StrV("strip")}

\* the operations the applicable pairs name for column c, in declared order
OperationsOn(df, pairs, c) ==
    LET on == SelectSeq(pairs, LAMBDA pair : Applicable(df, pair) /\ pair.d["column"].s = c)
    IN  [k \in 1..Len(on) |-> on[k].d["operation"].s]

\* the operations applied one after the other to a text
RECURSIVE Composed(_, _)
Composed(text, operations) ==
    IF Len(operations) = 0 THEN text
    ELSE LET first == operations[1]
             next == CASE first = "lowercase" -> lower(text)
                       [] first = "uppercase" -> upper(text)
                       [] first = "strip"     -> strip(text)
         IN  Composed(next, Tail(operations))

\* no upper-case letter occurs in the text
LowerCase(text) ==
    \A i \in 1..Len(text) : SubSeq(text, i, i) \notin DOMAIN UpperToLower

\* the table the i-th rule of the list received and the table it handed back
Received(i) == EndOf(apply_rules(<<heap[data]>>, 1, SubSeq(rules, 1, i - 1)))
HandedBack(i) == EndOf(apply_rules(<<heap[data]>>, 1, SubSeq(rules, 1, i)))

(* C26: within one transform rule the {column, operation} pairs are applied
   in declared order, each to the result of the previous pair: every text of
   a column becomes the composition, in that order, of the operations the
   rule names for the column.  A pair naming an unknown operation or a
   missing column changes nothing and the other pairs of the rule still
   apply; after a lowercase pair every non-null value of its column is
   lower-case.  Columns, index, row count and nulls stay as they were. *)
C26_PairsAppliedInOrder ==
    Curated =>
        \A i \in 1..Len(rules) :
            (Get(rules[i], "type", NoneV) = StrV("transform") /\ ~Received(i).raised) =>
                LET input == Received(i).value
                    pairs == Pairs(rules[i])
                    applied(k) == transform_loop(input, SubSeq(pairs, 1, k), 1)
                IN  /\ ~HandedBack(i).raised
                    /\ HandedBack(i).value.columns = input.columns
                    /\ HandedBack(i).value.index = input.index
                    /\ HandedBack(i).value.dtypes = input.dtypes
                    /\ Len(HandedBack(i).value.rows) = Len(input.rows)
                    /\ \A r \in 1..Len(input.rows), c \in ColumnSet(input) :
                          LET old == input.rows[r][c]
                              new == HandedBack(i).value.rows[r][c]
                          IN  IF old.t = "str"
                              THEN new = StrV(Composed(old.s, OperationsOn(input, pairs, c)))
                              ELSE new = old
                    /\ \A k \in 1..Len(pairs) :
                          /\ ~Applicable(input, pairs[k]) => applied(k) = applied(k - 1)
                          /\ (Applicable(input, pairs[k])
                                /\ pairs[k].d["operation"] = StrV("lowercase")) =>
                                \A r \in 1..Len(input.rows) :
                                    LET v == applied(k).rows[r][pairs[k].d["column"].s]
                                    IN  v.t = "str" => LowerCase(v.s)
                    /\ Len(rules) = 1 => CuratedEnd = HandedBack(1)

\* uppercase, an unknown operation, then lowercase on the same column: the
\* names end lower-case, the pair in between changed nothing
C26_Witness ==
    /\ RanOneRule("transform")
    /\ heap[data] = SampleData
    /\ Len(Pairs(OnlyRule)) = 3
    /\ Pairs(OnlyRule)[1] = Column("name", "operation", "uppercase")
    /\ Pairs(OnlyRule)[2] = Column("email", "operation", "title")
    /\ Pairs(OnlyRule)[3] = Column("name", "operation", "lowercase")
    /\ ~curated.raised
    /\ heap[curated.value].rows[1] = Row3(IntV(1), StrV("alice"), StrV("alice@test.com"))
    /\ heap[curated.value].rows[3] = Row3(IntV(3), StrV("charlie"), NoneV)

----------------------------------------------------------------------------
(* The shape of what apply_rules returns, checked under SpecRules *)

\* the pairs of all transform rules of the list, in order
RECURSIVE AllPairs(_)
AllPairs(rule_list) ==
    IF Len(rule_list) = 0 THEN <<>>
    ELSE (IF Get(rule_list[1], "type", NoneV) = StrV("transform")
          THEN Pairs(rule_list[1]) ELSE <<>>)
         \o AllPairs(Tail(rule_list))

\* a is b with some entries left out: there is a strictly increasing map
\* from the positions of a to the positions of b with equal entries
RECURSIVE IsSubsequence(_, _)
IsSubsequence(a, b) ==
    IF Len(a) = 0 THEN TRUE
    ELSE IF Len(b) = 0 THEN FALSE
    ELSE IF a[1] = b[1] THEN IsSubsequence(Tail(a), Tail(b))
    ELSE IsSubsequence(a, Tail(b))

(* C28: for every table and every rule list on which apply_rules returns,
   the result has the columns of the input in the same order, and each
   result row derives from a distinct input row (it is that row as the
   transform rules of the list leave it, rows keeping their order), so the
   row count never increases; transform and validate rules keep the row
   count, only filter and deduplicate rules can lower it. *)
C28_RowsDeriveFromInputRows ==
    (Curated /\ ~curated.raised) =>
        LET input == heap[data]
            output == heap[curated.value]
        IN  /\ output.columns = input.columns
            /\ output.dtypes = input.dtypes
            /\ IsSubsequence(output.rows,
                             transform_loop(input, AllPairs(rules), 1).rows)
            /\ Len(output.rows) <= Len(input.rows)
            /\ \A i \in 1..Len(rules) :
                  LET before == Len(Received(i).value.rows)
                      after == Len(HandedBack(i).value.rows)
                  IN  /\ ~Received(i).raised
                      /\ ~HandedBack(i).raised
                      /\ after <= before
                      /\ after < before =>
                            Get(rules[i], "type", NoneV) \in
                                {StrV("filter"), StrV("deduplicate")}
                      /\ HandedBack(i).value.columns = input.columns

\* a filter dropped a row and a transform changed the rows that are left
C28_Witness ==
    /\ pc = "curated"
    /\ heap[data] = SampleData
    /\ Len(rules) = 2
    /\ Get(rules[1], "type", NoneV) = StrV("filter")
    /\ Get(rules[2], "type", NoneV) = StrV("transform")
    /\ ~curated.raised
    /\ Len(heap[curated.value].rows) = 4
    /\ heap[curated.value].rows[1] = Row3(IntV(2), StrV("BOB"), StrV("bob@test.com"))
    /\ heap[curated.value].columns = <<"id", "name", "email">>

----------------------------------------------------------------------------
(* Claims about the two fetches of process_failed_job, checked under Spec *)

\* get_job_run returned a dict with an error entry
RunDetailsFailed ==
    /\ run_details # NoneV
    /\ "error" \in DOMAIN run_details.d

(* C29: if get_run returns a result carrying an error field,
   process_failed_job returns that error immediately and calls no other
   collaborator: no run output is fetched, no model analysis is requested,
   no run is cancelled or submitted and no notification is sent. *)
C29_RunDetailsErrorReturned ==
    RunDetailsFailed =>
        /\ pc = "done"
        /\ result = [error |-> run_details.d["error"]]
        /\ Len(calls) = 1
        /\ calls[1].op = "get_job_run"
        /\ error_message = ""
        /\ llm_analysis = NoneV
        /\ decision = NoneV
        /\ action_result = NoneV

\* the fetch of the run failed with HTTP 500 on a second attempt
C29_Witness ==
    /\ RunDetailsFailed
    /\ pc = "done"
    /\ attempt_number = 2
    /\ result = [error |-> StrV("HTTP 500")]
    /\ calls = << Call("get_job_run", FALSE) >>

\* get_job_run_output returned a dict with an error entry
OutputFailed ==
    /\ Len(calls) >= 2
    /\ calls[2].op = "get_job_run_output"
    /\ ~calls[2].ok

StartsWith(s, prefix) ==
    /\ Len(s) >= Len(prefix)
    /\ SubSeq(s, 1, Len(prefix)) = prefix

(* C30: a failed get_run_output does not stop process_failed_job and is not
   reported as a processing error.  Its failure text, like a supplied
   previous_error, is joined into the error message that is analysed and
   classified, after the run's state message and before the output's error
   trace, so the category and the action decided for the job can be
   determined by that text instead of the run's own state message: a
   failure text with a timeout keyword makes the category timeout whatever
   the state message says. *)
C30_OutputFailureIsClassified ==
    OutputFailed =>
        LET error_trace == Get(calls[2].value.d, "error_trace", NoneV)
            text == calls[2].value.d["error"].s
            joined == IF Truthy(error_trace)
                      THEN text \o " | " \o error_trace.s ELSE text
            state_message == Get(run_details.d, "state_message", NoneV)
        IN  /\ pc \in {"analyze", "decide", "execute", "done"}
            /\ EndsWith(error_message,
                        IF Truthy(state_message) \/ Truthy(previous_error)
                        THEN " | " \o joined ELSE joined)
            /\ Truthy(state_message) =>
                  Contains(error_message, state_message.s \o " | " \o text)
            /\ Truthy(previous_error) =>
                  StartsWith(error_message,
                             "Previous attempt error: " \o previous_error.s)
            /\ pc = "done" =>
                  /\ Len(calls) >= 3
                  /\ calls[3].op = "analyze_error"
                  /\ "success" \in DOMAIN result
                  /\ result.success \/ decision.raised
            /\ (pattern_result # NoneV /\ Contains(lower(text), "timed out")) =>
                  pattern_result.error_type = "timeout"
            /\ (Dispatched /\ pattern_result.error_type = "timeout"
                  /\ "recommendation" \notin DOMAIN llm_analysis.d
                  /\ attempt_number < max_retries) =>
                  decision.value.action = "RETRY"

\* the run reports a permission error; fetching its output timed out, and
\* the job is classified as a timeout and retried
C30_Witness ==
    /\ OutputFailed
    /\ Dispatched
    /\ Get(run_details.d, "state_message", NoneV) =
          StrV("Permission denied: Access to file denied")
    /\ calls[2].value.d["error"] = StrV("Read timed out")
    /\ previous_error = NoneV
    /\ error_message = "Permission denied: Access to file denied | Read timed out"
    /\ pattern_result.error_type = "timeout"
    /\ decision.value.action = "RETRY"
    /\ decision.value.error_category = StrV("timeout")
    /\ action_result.value["status"] = StrV("retry_submitted")
    /\ result.success

----------------------------------------------------------------------------
(* Claims about sequences of process_failed_job calls, checked under
   SpecRetries *)

\* the runs the current call submitted
SubmittedNow ==
    Cardinality({i \in 1..Len(calls) : calls[i].op = "submit_job_run" /\ calls[i].ok})

\* the runs cancelled and resubmitted since the first call for the job: one
\* per earlier attempt, and what the current call submitted
Resubmitted == (attempt_number - 1) + SubmittedNow

(* C27: retries of one job are bounded.  In any sequence of
   process_failed_job calls in which attempt_number starts at 1 and goes up
   by one after each submitted retry, at most max_retries - 1 runs are ever
   cancelled and resubmitted, whatever the error messages and the analyses;
   once attempt_number >= max_retries no call cancels or submits a run. *)
C27_RetriesBounded ==
    /\ Resubmitted <= max_retries - 1
    /\ attempt_number <= max_retries
    /\ RetrySubmitted <=> SubmittedNow = 1
    /\ attempt_number >= max_retries =>
          \A i \in 1..Len(calls) :
              calls[i].op \notin {"cancel_job_run", "submit_job_run"}

\* the last attempt the limit allows: two retries were submitted before, the
\* analysis recommends another one and the decision is to send an email
C27_Witness ==
    /\ pc = "done"
    /\ attempt_number = max_retries
    /\ Resubmitted = max_retries - 1
    /\ llm_analysis.t = "dict"
    /\ Get(llm_analysis.d, "recommendation", NoneV) = StrV("retry")
    /\ ~decision.raised
    /\ decision.value.action = "SEND_EMAIL"
    /\ \E i \in 1..Len(calls) : calls[i].op = "send_error_notification"

====
